---- MODULE Spec2Model ----
(***************************************************************************)
(* State-machine model of masteren/dailyproject:                           *)
(*   - smallapp: the Flask pantry/recipe tracker over SQLite               *)
(*     (src/smallapp/app.py, src/smallapp/db.py,                           *)
(*      src/smallapp/services/openai_vision.py)                            *)
(*   - the command-line student grade manager                              *)
(*     (src/student_grade_system.py)                                       *)
(*                                                                         *)
(* Conventions.  A date is a day number; a nullable column holds <<>> for  *)
(* NULL and <<v>> for the value v.  Ingredient names and units are opaque  *)
(* strings; the CJK literals of the source are written in ASCII            *)
(* transliteration (jidan = egg, niunai = milk, ...).  A Python dict or    *)
(* the Flask session is a function whose DOMAIN is the set of keys.        *)
(***************************************************************************)
EXTENDS Integers, Sequences, FiniteSets, TLC

VARIABLES
    users,              \* table users: rows [id, username, password_hash]
    users_seq,          \* sqlite_sequence of users
    pantry_items,       \* table pantry_items: rows [id, user_id, name, quantity, unit, expiry_date]
    pantry_seq,         \* sqlite_sequence of pantry_items
    recipes,            \* table recipes: rows [id, title, description, ingredients_json, nutrition_json]
    recipes_seq,        \* sqlite_sequence of recipes
    ingredients,        \* table ingredients: rows [id, name_canonical]
    ingredients_seq,    \* sqlite_sequence of ingredients
    recipe_ingredients, \* table recipe_ingredients: rows [recipe_id, ingredient_id, role]
    cooking_log,        \* table cooking_log in id order: rows [id, user_id, recipe_id, cooked_at_date]
    recognition_logs,   \* table recognition_logs in id order: rows [id, user_id, recognized_at, items_count]
    session,            \* the Flask session: a function over a subset of {"user_id", "recognize_items"}
    demo_cache,         \* static/demo_cache: image bytes |-> cached ingredient list (DOMAIN = files present)
    today,              \* the current day
    call,               \* the last operation: its name, its inputs and its outcome
    ops,                \* number of operations performed so far
    conn,               \* per concurrent worker: position in upsert_pantry_item and its arguments
    write_lock,         \* the workers holding SQLite's write lock on the database file
    students,           \* StudentManager.students: student_id |-> [name, scores]
    data_file           \* students.json: <<>> when the file is absent, <<content>> otherwise

db_vars == <<users, users_seq, pantry_items, pantry_seq, recipes, recipes_seq,
             ingredients, ingredients_seq, recipe_ingredients, cooking_log,
             recognition_logs>>
web_vars == <<session, demo_cache>>
conc_vars == <<conn, write_lock>>
student_vars == <<students, data_file>>
vars == <<db_vars, web_vars, today, call, ops, conc_vars, student_vars>>

----------------------------------------------------------------------------
(* Bounds of the model. *)

\* largest quantity a caller passes
MaxQty == 2
\* last day the clock reaches
MaxDay == 1

NULL == <<>>
Some(v) == <<v>>

Max(a, b) == IF a >= b THEN a ELSE b

----------------------------------------------------------------------------
(* db.py: the pantry_items table and its helpers. *)

\* UNIQUE(user_id, name) of CREATE TABLE pantry_items: TRUE when the rows
\* satisfy the constraint.  A statement whose result would break it fails
\* with sqlite3.IntegrityError and changes nothing.
NoUniqueConstraint(rows) == TRUE
pantry_unique(rows) ==
    \A r1 \in rows : \A r2 \in rows :
        (r1.user_id = r2.user_id /\ r1.name = r2.name) => r1.id = r2.id

\* The row ON CONFLICT(user_id, name) finds, as a set (empty or one row).
conflict_rows(rows, user_id, name) ==
    {r \in rows : r.user_id = user_id /\ r.name = name}

\* INSERT ... ON CONFLICT(user_id, name) DO UPDATE SET quantity = quantity +
\* excluded.quantity, unit = excluded.unit, expiry_date = excluded.expiry_date.
\* An AUTOINCREMENT rowid is drawn for every INSERT, also when the conflict
\* clause turns it into an UPDATE.
upsert_replacing_quantity(rows, seq, user_id, name, quantity, unit, expiry_date) ==
    LET hit == conflict_rows(rows, user_id, name)
    IN  IF hit = {}
        THEN rows \cup {[id |-> seq + 1, user_id |-> user_id, name |-> name,
                         quantity |-> quantity, unit |-> unit,
                         expiry_date |-> expiry_date]}
        ELSE (rows \ hit) \cup
             {[r EXCEPT !.quantity = quantity, !.unit = unit,
                        !.expiry_date = expiry_date] : r \in hit}
upsert_pantry_item(rows, seq, user_id, name, quantity, unit, expiry_date) ==
    LET hit == conflict_rows(rows, user_id, name)
    IN  IF hit = {}
        THEN rows \cup {[id |-> seq + 1, user_id |-> user_id, name |-> name,
                         quantity |-> quantity, unit |-> unit,
                         expiry_date |-> expiry_date]}
        ELSE (rows \ hit) \cup
             {[r EXCEPT !.quantity = r.quantity + quantity, !.unit = unit,
                        !.expiry_date = expiry_date] : r \in hit}

\* UPDATE pantry_items SET name, quantity, unit, expiry_date
\* WHERE id = ? AND user_id = ?  (the rows the statement would produce).
update_pantry_item(rows, user_id, item_id, name, quantity, unit, expiry_date) ==
    {IF r.id = item_id /\ r.user_id = user_id
     THEN [r EXCEPT !.name = name, !.quantity = quantity, !.unit = unit,
                    !.expiry_date = expiry_date]
     ELSE r : r \in rows}

\* DELETE FROM pantry_items WHERE id = ? AND user_id = ?
delete_ignoring_owner(rows, user_id, item_id) ==
    {r \in rows : r.id # item_id}
delete_pantry_item(rows, user_id, item_id) ==
    {r \in rows : ~(r.id = item_id /\ r.user_id = user_id)}

\* SELECT ... FROM pantry_items WHERE user_id = ?
fetch_pantry_items(rows, user_id) == {r \in rows : r.user_id = user_id}

----------------------------------------------------------------------------
(* db.py: seed_data, run after init_db every time the application starts. *)

\* werkzeug's salted hash of a password: opaque, recording the password it
\* was made from (check_password_hash compares against that).
generate_password_hash(password) == <<"pbkdf2:sha256", password>>
DemoHash == generate_password_hash("demo-password")
NewoneHash == generate_password_hash("newone-password")

\* if the user is missing INSERT it, else UPDATE its password_hash.
seed_user(t, username, hash) ==
    IF \E u \in t.users : u.username = username
    THEN [t EXCEPT !.users = {IF u.username = username
                              THEN [u EXCEPT !.password_hash = hash]
                              ELSE u : u \in t.users}]
    ELSE [t EXCEPT !.users = t.users \cup {[id |-> t.users_seq + 1,
                                            username |-> username,
                                            password_hash |-> hash]},
                   !.users_seq = t.users_seq + 1]

user_id_of(t, username) ==
    (CHOOSE u \in t.users : u.username = username).id

\* pantry_seed: <<name, quantity, unit, days until expiry>>.
pantry_seed ==
    << <<"jidan", 2, "ge", 2>>,          <<"niunai", 1, "he", 3>>,
       <<"doufu", 2, "kuai", 4>>,        <<"fanqie", 8, "ge", 5>>,
       <<"niurou", 1, "jin", 6>>,        <<"bocai", 3, "ba", 15>>,
       <<"huluobo", 3, "ge", 8>>,        <<"tudou", 2, "ge", 12>>,
       <<"yangcong", 5, "ge", 20>>,      <<"cong", 3, "jin", 18>>,
       <<"yan", 1, "dai", 180>>,         <<"you", 1, "jin", 60>>,
       <<"jiangyou", 1, "jin", 90>>,     <<"shatang", 1, "dai", 120>>,
       <<"xiaomaifen", 1, "dai", 100>>,  <<"lengdongjitui", 2, "dai", 45>>,
       <<"lengdongjiaozi", 1, "he", 40>>, <<"fanqiejiang", 1, "dai", 60>>,
       <<"miantiao", 3, "ge", 9>>,       <<"dami", 1, "dai", 25>> >>

\* INSERT ... ON CONFLICT(user_id, name) DO UPDATE SET expiry_date =
\* excluded.expiry_date, once per seed item.
RECURSIVE seed_pantry(_, _, _, _)
seed_pantry(t, demo_user_id, day, items) ==
    IF items = <<>> THEN t
    ELSE LET it == Head(items)
             hit == conflict_rows(t.pantry_items, demo_user_id, it[1])
             rows == IF hit = {}
                     THEN t.pantry_items \cup
                          {[id |-> t.pantry_seq + 1, user_id |-> demo_user_id,
                            name |-> it[1], quantity |-> it[2], unit |-> it[3],
                            expiry_date |-> Some(day + it[4])]}
                     ELSE (t.pantry_items \ hit) \cup
                          {[r EXCEPT !.expiry_date = Some(day + it[4])] : r \in hit}
         IN  seed_pantry([t EXCEPT !.pantry_items = rows,
                                   !.pantry_seq = t.pantry_seq + 1],
                         demo_user_id, day, Tail(items))

\* str.strip on the texts used here.
strip(text) ==
    CASE text \in {" ", "  ", "   "} -> ""
      [] text = " alice " -> "alice"
      [] OTHER -> text

\* _get_or_create_ingredient_id: <<tables, id>>.
create_ingredient_id(t, name) ==
    <<[t EXCEPT !.ingredients = t.ingredients \cup
                    {[id |-> t.ingredients_seq + 1, name_canonical |-> name]},
                !.ingredients_seq = t.ingredients_seq + 1],
      t.ingredients_seq + 1>>
get_or_create_ingredient_id(t, name) ==
    IF \E i \in t.ingredients : i.name_canonical = name
    THEN <<t, (CHOOSE i \in t.ingredients : i.name_canonical = name).id>>
    ELSE <<[t EXCEPT !.ingredients = t.ingredients \cup
                         {[id |-> t.ingredients_seq + 1, name_canonical |-> name]},
                     !.ingredients_seq = t.ingredients_seq + 1],
           t.ingredients_seq + 1>>

\* The loop of _insert_recipe over enumerate(recipe["ingredients"]), from
\* index idx (0-based) on: INSERT OR IGNORE INTO recipe_ingredients, whose
\* primary key is (recipe_id, ingredient_id, role).  The amount and unit
\* columns are not modelled.
RECURSIVE insert_recipe_ingredients(_, _, _, _)
insert_recipe_ingredients(t, recipe_id, ings, idx) ==
    IF idx >= Len(ings) THEN t
    ELSE LET ing_name == strip(ings[idx + 1].name)
         IN  IF ing_name = ""
             THEN insert_recipe_ingredients(t, recipe_id, ings, idx + 1)
             ELSE LET got == get_or_create_ingredient_id(t, ing_name)
                      role == IF idx < 2 THEN "required" ELSE "optional"
                      row == [recipe_id |-> recipe_id, ingredient_id |-> got[2],
                              role |-> role]
                  IN  insert_recipe_ingredients(
                          [got[1] EXCEPT !.recipe_ingredients = @ \cup {row}],
                          recipe_id, ings, idx + 1)

\* _insert_recipe: nothing when a recipe of that title exists, else one new
\* recipes row (the JSON columns hold the value that json.dumps encodes)
\* and its recipe_ingredients.
insert_recipe_overwriting(t, recipe) ==
    LET old == {r \in t.recipes : r.title = recipe.title}
        rid == IF old = {} THEN t.recipes_seq + 1 ELSE (CHOOSE r \in old : TRUE).id
        row == [id |-> rid, title |-> recipe.title,
                description |-> recipe.description,
                ingredients_json |-> recipe.ingredients,
                nutrition_json |-> recipe.nutrition]
    IN  insert_recipe_ingredients(
            [t EXCEPT !.recipes = (t.recipes \ old) \cup {row},
                      !.recipes_seq = Max(t.recipes_seq, rid)],
            rid, recipe.ingredients, 0)
insert_recipe(t, recipe) ==
    IF \E r \in t.recipes : r.title = recipe.title
    THEN t
    ELSE LET rid == t.recipes_seq + 1
             row == [id |-> rid, title |-> recipe.title,
                     description |-> recipe.description,
                     ingredients_json |-> recipe.ingredients,
                     nutrition_json |-> recipe.nutrition]
         IN  insert_recipe_ingredients(
                 [t EXCEPT !.recipes = t.recipes \cup {row},
                           !.recipes_seq = rid],
                 rid, recipe.ingredients, 0)

\* for recipe in global_recipes: _insert_recipe(conn, recipe)
RECURSIVE insert_recipes(_, _)
insert_recipes(t, catalog) ==
    IF catalog = <<>> THEN t
    ELSE insert_recipes(insert_recipe(t, Head(catalog)), Tail(catalog))

\* cooking_history: <<recipe_id, days ago>>.
cooking_history ==
    << <<1, 5>>, <<2, 3>>, <<3, 4>>, <<1, 2>>, <<4, 1>>, <<2, 0>>, <<3, 6>>, <<1, 7>> >>

\* recognition_history: <<days ago, items_count>>.
recognition_history ==
    << <<8, 3>>, <<6, 2>>, <<4, 5>>, <<2, 4>>, <<1, 6>>, <<0, 2>> >>

\* INSERT INTO cooking_log (user_id, recipe_id, cooked_at_date)
add_cooking_log(log, user_id, recipe_id, cooked_at_date) ==
    Append(log, [id |-> Len(log) + 1, user_id |-> user_id,
                 recipe_id |-> recipe_id, cooked_at_date |-> cooked_at_date])

\* INSERT INTO recognition_logs (user_id, recognized_at, items_count)
add_recognition_log(log, user_id, recognized_at, items_count) ==
    Append(log, [id |-> Len(log) + 1, user_id |-> user_id,
                 recognized_at |-> recognized_at, items_count |-> items_count])

\* for ... in cooking_history: INSERT INTO cooking_log
RECURSIVE append_cooking_history(_, _, _, _)
append_cooking_history(log, demo_user_id, day, items) ==
    IF items = <<>> THEN log
    ELSE append_cooking_history(
             add_cooking_log(log, demo_user_id, Head(items)[1], day - Head(items)[2]),
             demo_user_id, day, Tail(items))

seed_cooking_log_fresh(log, demo_user_id, day) ==
    append_cooking_history(<<>>, demo_user_id, day, cooking_history)
seed_cooking_log(log, demo_user_id, day) ==
    append_cooking_history(log, demo_user_id, day, cooking_history)

\* for ... in recognition_history: INSERT INTO recognition_logs
RECURSIVE append_recognition_history(_, _, _, _)
append_recognition_history(log, demo_user_id, day, items) ==
    IF items = <<>> THEN log
    ELSE append_recognition_history(
             add_recognition_log(log, demo_user_id, day - Head(items)[1], Head(items)[2]),
             demo_user_id, day, Tail(items))

seed_recognition_logs(log, demo_user_id, day) ==
    append_recognition_history(log, demo_user_id, day, recognition_history)

\* The tables as one record, and the tables of a database file on which
\* init_db has just created them.
EmptyTables ==
    [users |-> {}, users_seq |-> 0, pantry_items |-> {}, pantry_seq |-> 0,
     recipes |-> {}, recipes_seq |-> 0, ingredients |-> {}, ingredients_seq |-> 0,
     recipe_ingredients |-> {}, cooking_log |-> <<>>, recognition_logs |-> <<>>]

Tables ==
    [users |-> users, users_seq |-> users_seq, pantry_items |-> pantry_items,
     pantry_seq |-> pantry_seq, recipes |-> recipes, recipes_seq |-> recipes_seq,
     ingredients |-> ingredients, ingredients_seq |-> ingredients_seq,
     recipe_ingredients |-> recipe_ingredients, cooking_log |-> cooking_log,
     recognition_logs |-> recognition_logs]

\* seed_data on tables t, with INTERNATIONAL_RECIPES = catalog, on day `day`.
seed_data(t, catalog, day) ==
    LET t1 == seed_user(t, "demo", DemoHash)
        demo_user_id == user_id_of(t1, "demo")
        t2 == seed_user(t1, "newone", NewoneHash)
        t3 == seed_pantry(t2, demo_user_id, day, pantry_seed)
        t4 == insert_recipes(t3, catalog)
    IN  [t4 EXCEPT
            !.cooking_log = seed_cooking_log(@, demo_user_id, day),
            !.recognition_logs = seed_recognition_logs(@, demo_user_id, day)]

\* The recipes_data module is not part of the sources: INTERNATIONAL_RECIPES
\* is an input, any list of up to two recipes of this pool (two of them
\* share a title, one has a blank and a repeated ingredient name).
RecipePool ==
    { [title |-> "curry", description |-> "v1",
       ingredients |-> << [name |-> "jidan"], [name |-> ""], [name |-> "jidan"] >>,
       nutrition |-> ("protein" :> 30 @@ "kcal" :> 500)],
      [title |-> "curry", description |-> "v2",
       ingredients |-> << [name |-> "niunai"] >>,
       nutrition |-> [k \in {} |-> 0]],
      [title |-> "salad", description |-> "v1",
       ingredients |-> << [name |-> "fanqie"], [name |-> "jidan"] >>,
       nutrition |-> ("veg_score" :> 2 @@ "fat" :> 10 @@ "carb" :> 70)] }
RecipeCatalogs ==
    {<<r>> : r \in RecipePool} \cup {<<r1, r2>> : r1 \in RecipePool, r2 \in RecipePool}

----------------------------------------------------------------------------
(* The initial state: a new database file on which init_db and seed_data   *)
(* have run once (app.py runs both at import), nobody logged in, an empty  *)
(* demo cache, no students.json.                                           *)

EmptyDict == [k \in {} |-> 0]

Workers == {"w1", "w2"}
IdleConn == [pc |-> "idle"]

SetTables(t) ==
    /\ users' = t.users
    /\ users_seq' = t.users_seq
    /\ pantry_items' = t.pantry_items
    /\ pantry_seq' = t.pantry_seq
    /\ recipes' = t.recipes
    /\ recipes_seq' = t.recipes_seq
    /\ ingredients' = t.ingredients
    /\ ingredients_seq' = t.ingredients_seq
    /\ recipe_ingredients' = t.recipe_ingredients
    /\ cooking_log' = t.cooking_log
    /\ recognition_logs' = t.recognition_logs

InitWith(catalogs) ==
    \E catalog \in catalogs :
        LET t == seed_data(EmptyTables, catalog, 0)
        IN  /\ users = t.users
            /\ users_seq = t.users_seq
            /\ pantry_items = t.pantry_items
            /\ pantry_seq = t.pantry_seq
            /\ recipes = t.recipes
            /\ recipes_seq = t.recipes_seq
            /\ ingredients = t.ingredients
            /\ ingredients_seq = t.ingredients_seq
            /\ recipe_ingredients = t.recipe_ingredients
            /\ cooking_log = t.cooking_log
            /\ recognition_logs = t.recognition_logs
            /\ session = EmptyDict
            /\ demo_cache = EmptyDict
            /\ today = 0
            /\ call = [op |-> "start"]
            /\ ops = 0
            /\ conn = [w \in Workers |-> IdleConn]
            /\ write_lock = {}
            /\ students = EmptyDict
            /\ data_file = NULL

Init == InitWith(RecipeCatalogs)

\* One more operation of a behaviour bounded by max operations.
Budget(max) == ops < max /\ ops' = ops + 1

\* The application is started again: init_db (CREATE TABLE IF NOT EXISTS,
\* no effect) and seed_data run on the database as it is.
SeedData(catalogs) ==
    \E catalog \in catalogs :
        /\ SetTables(seed_data(Tables, catalog, today))
        /\ call' = [op |-> "seed_data"]

\* A day passes.
Tick ==
    /\ today < MaxDay
    /\ today' = today + 1
    /\ call' = [op |-> "tick"]

----------------------------------------------------------------------------
(* The pantry helpers of db.py called directly, with any arguments. *)

\* operations per behaviour of SpecDb
MaxDbOps == 2

UserIds == {1, 2}
Names == {"jidan", "tomato"}
Quantities == 1 .. MaxQty
\* unit and expiry_date of a call
Details == {[unit |-> "ge", expiry_date |-> NULL],
            [unit |-> "he", expiry_date |-> Some(today)]}
\* item ids handed to update and delete: a seeded row, the rows added
\* since, and an id no row has
ItemIds == {1, pantry_seq + 1} \cup
           {r.id : r \in {x \in pantry_items : x.id > Len(pantry_seed)}}

PantryCall(op, user_id, item_id, name, quantity, d, raised) ==
    [op |-> op, user_id |-> user_id, item_id |-> item_id, name |-> name,
     quantity |-> quantity, unit |-> d.unit, expiry_date |-> d.expiry_date,
     raised |-> raised]

other_tables == <<users, users_seq, recipes, recipes_seq, ingredients,
                  ingredients_seq, recipe_ingredients, cooking_log, recognition_logs>>
not_db_vars == <<web_vars, conc_vars, student_vars>>

\* the recipe list of SpecDb, which is about the pantry
DbCatalogs == {<<r>> : r \in {x \in RecipePool : x.title = "salad"}}

CallUpsertPantryItem ==
    \E user_id \in UserIds, name \in Names, quantity \in Quantities, d \in Details :
        /\ Budget(MaxDbOps)
        /\ pantry_items' = upsert_pantry_item(pantry_items, pantry_seq, user_id,
                                              name, quantity, d.unit, d.expiry_date)
        /\ pantry_seq' = pantry_seq + 1
        /\ call' = PantryCall("upsert_pantry_item", user_id, 0, name, quantity, d, "")
        /\ UNCHANGED <<other_tables, today, not_db_vars>>

\* sqlite3 raises IntegrityError, and the with block rolls back, when the
\* UPDATE would break UNIQUE(user_id, name).
CallUpdatePantryItem ==
    \E user_id \in UserIds, item_id \in ItemIds, name \in Names,
       quantity \in Quantities, d \in Details :
        LET rows == update_pantry_item(pantry_items, user_id, item_id, name,
                                       quantity, d.unit, d.expiry_date)
        IN  /\ Budget(MaxDbOps)
            /\ pantry_items' = IF pantry_unique(rows) THEN rows ELSE pantry_items
            /\ call' = PantryCall("update_pantry_item", user_id, item_id, name,
                                  quantity, d,
                                  IF pantry_unique(rows) THEN "" ELSE "IntegrityError")
            /\ UNCHANGED <<pantry_seq, other_tables, today, not_db_vars>>

CallDeletePantryItem ==
    \E user_id \in UserIds, item_id \in ItemIds :
        /\ Budget(MaxDbOps)
        /\ pantry_items' = delete_pantry_item(pantry_items, user_id, item_id)
        /\ call' = [op |-> "delete_pantry_item", user_id |-> user_id,
                    item_id |-> item_id, raised |-> ""]
        /\ UNCHANGED <<pantry_seq, other_tables, today, not_db_vars>>

CallSeedData ==
    /\ Budget(MaxDbOps)
    /\ SeedData(DbCatalogs)
    /\ UNCHANGED <<today, not_db_vars>>

DbTick ==
    /\ Budget(MaxDbOps)
    /\ Tick
    /\ UNCHANGED <<db_vars, not_db_vars>>

NextDb ==
    \/ CallUpsertPantryItem
    \/ CallUpdatePantryItem
    \/ CallDeletePantryItem
    \/ CallSeedData
    \/ DbTick

SpecDb == InitWith(DbCatalogs) /\ [][NextDb]_vars

----------------------------------------------------------------------------
(* student_grade_system.py: Student and StudentManager. *)

StudentIds == {"s1", "s2"}
StudentNames == {"ann", "bob"}
\* the scores of a command line: a dict course |-> score
ScoreDicts == {EmptyDict, ("math" :> 90), ("math" :> 60 @@ "art" :> 90)}

Student(student_id, name, scores) ==
    [student_id |-> student_id, name |-> name, scores |-> scores]

\* save: the JSON object {student_id: {"name", "scores"}} written to the file.
serialize_without_scores(ss) ==
    [id \in DOMAIN ss |-> [name |-> ss[id].name, scores |-> EmptyDict]]
serialize(ss) ==
    [id \in DOMAIN ss |-> [name |-> ss[id].name, scores |-> ss[id].scores]]

\* load: the students of a file content; no students when the file is absent.
load(file) ==
    IF file = NULL THEN EmptyDict
    ELSE [id \in DOMAIN file[1] |->
             Student(id, file[1][id].name, file[1][id].scores)]

\* add_student, update_student, delete_student: the exception raised ("" for
\* none) and the students map afterwards; save is called when none is raised.
add_student_overwriting(ss, student) ==
    [raised |-> "", students |-> (student.student_id :> student) @@ ss]
add_student(ss, student) ==
    IF student.student_id \in DOMAIN ss
    THEN [raised |-> "ValueError", students |-> ss]
    ELSE [raised |-> "", students |-> (student.student_id :> student) @@ ss]

\* name and scores are <<>> for None, <<v>> otherwise.
update_student_replacing(ss, student_id, name, scores) ==
    IF student_id \notin DOMAIN ss
    THEN [raised |-> "ValueError", students |-> ss]
    ELSE LET st == ss[student_id]
             st1 == IF name # NULL THEN [st EXCEPT !.name = name[1]] ELSE st
             st2 == IF scores # NULL THEN [st1 EXCEPT !.scores = scores[1]] ELSE st1
         IN  [raised |-> "", students |-> [ss EXCEPT ![student_id] = st2]]
update_student(ss, student_id, name, scores) ==
    IF student_id \notin DOMAIN ss
    THEN [raised |-> "ValueError", students |-> ss]
    ELSE LET st == ss[student_id]
             st1 == IF name # NULL THEN [st EXCEPT !.name = name[1]] ELSE st
             st2 == IF scores # NULL
                    THEN [st1 EXCEPT !.scores = scores[1] @@ st1.scores]
                    ELSE st1
         IN  [raised |-> "", students |-> [ss EXCEPT ![student_id] = st2]]

delete_student_if_present(ss, student_id) ==
    [raised |-> "", students |-> [id \in DOMAIN ss \ {student_id} |-> ss[id]]]
delete_student(ss, student_id) ==
    IF student_id \notin DOMAIN ss
    THEN [raised |-> "ValueError", students |-> ss]
    ELSE [raised |-> "",
          students |-> [id \in DOMAIN ss \ {student_id} |-> ss[id]]]

\* The manager's state after a method returned r.
Saved(r) ==
    /\ students' = r.students
    /\ data_file' = IF r.raised = "" THEN Some(serialize(r.students)) ELSE data_file

not_student_vars == <<db_vars, web_vars, today, ops, conc_vars>>

AddStudent ==
    \E student_id \in StudentIds, name \in StudentNames, scores \in ScoreDicts :
        LET r == add_student(students, Student(student_id, name, scores))
        IN  /\ Saved(r)
            /\ call' = [op |-> "add_student", student_id |-> student_id,
                        name |-> name, scores |-> scores, raised |-> r.raised]
            /\ UNCHANGED not_student_vars

UpdateStudent ==
    \E student_id \in StudentIds,
       name \in {NULL} \cup {Some(n) : n \in StudentNames},
       scores \in {NULL} \cup {Some(d) : d \in ScoreDicts \ {EmptyDict}} :
        LET r == update_student(students, student_id, name, scores)
        IN  /\ Saved(r)
            /\ call' = [op |-> "update_student", student_id |-> student_id,
                        name |-> name, scores |-> scores, raised |-> r.raised]
            /\ UNCHANGED not_student_vars

DeleteStudent ==
    \E student_id \in StudentIds :
        LET r == delete_student(students, student_id)
        IN  /\ Saved(r)
            /\ call' = [op |-> "delete_student", student_id |-> student_id,
                        raised |-> r.raised]
            /\ UNCHANGED not_student_vars

\* main builds a new StudentManager for every command: __init__ loads the file.
NewStudentManager ==
    /\ students' = load(data_file)
    /\ call' = [op |-> "StudentManager"]
    /\ UNCHANGED <<data_file, not_student_vars>>

NextStudent ==
    \/ AddStudent
    \/ UpdateStudent
    \/ DeleteStudent
    \/ NewStudentManager

SpecStudent == InitWith(DbCatalogs) /\ [][NextStudent]_vars

----------------------------------------------------------------------------
(* app.py: the session, login_required and the account routes. *)

\* requests per behaviour of SpecApp (login, logout and the GET pages are
\* not counted)
MaxRequests == 2

LoggedIn == "user_id" \in DOMAIN session
SessionSet(k, v) == (k :> v) @@ session
\* session.get("recognize_items", [])
SessionItems ==
    IF "recognize_items" \in DOMAIN session THEN session["recognize_items"] ELSE <<>>

\* login_required: without user_id in the session the view is not called.
Redirected(op) == [op |-> op, status |-> 302, location |-> "auth"]
RefusedByLoginRequired(op) ==
    /\ ~LoggedIn
    /\ call' = Redirected(op)
    /\ UNCHANGED <<db_vars, web_vars>>

accept_any_password(hash, password) == TRUE
check_password_hash(hash, password) == hash[2] = password

get_no_user(username) == {}
get_user_by_username(username) == {u \in users : u.username = username}

\* The <<username, password>> pairs typed into the forms.
Credentials ==
    { <<"demo", "demo-password">>, <<"demo", "pw">>, <<"newone", "newone-password">>,
      <<" alice ", "pw">>, <<" ", "pw">>, <<" alice ", "">> }

register(max, credentials) ==
    \E cred \in credentials :
        LET username == strip(cred[1])
            password == strip(cred[2])
        IN  /\ Budget(max)
            /\ IF username = "" \/ password = ""
               THEN /\ call' = [op |-> "register", status |-> 200, error |-> "empty",
                                username |-> username, password |-> password]
                    /\ UNCHANGED <<users, users_seq, session>>
               ELSE IF get_user_by_username(username) # {}
               THEN /\ call' = [op |-> "register", status |-> 200, error |-> "taken",
                                username |-> username, password |-> password]
                    /\ UNCHANGED <<users, users_seq, session>>
               ELSE /\ users' = users \cup
                            {[id |-> users_seq + 1, username |-> username,
                              password_hash |-> generate_password_hash(password)]}
                    /\ users_seq' = users_seq + 1
                    /\ session' = SessionSet("user_id", users_seq + 1)
                    /\ call' = [op |-> "register", status |-> 302, error |-> "",
                                username |-> username, password |-> password]
            /\ UNCHANGED <<pantry_items, pantry_seq, recipes, recipes_seq, ingredients,
                           ingredients_seq, recipe_ingredients, cooking_log,
                           recognition_logs, demo_cache, today, conc_vars, student_vars>>

login(credentials) ==
    \E cred \in credentials :
        LET username == strip(cred[1])
            password == strip(cred[2])
            found == get_user_by_username(username)
            ok == \E u \in found : check_password_hash(u.password_hash, password)
        IN  /\ IF ok
               THEN /\ session' = SessionSet("user_id", (CHOOSE u \in found : TRUE).id)
                    /\ call' = [op |-> "login", status |-> 302, username |-> username,
                                password |-> password]
               ELSE /\ session' = session
                    /\ call' = [op |-> "login", status |-> 200, username |-> username,
                                password |-> password]
            /\ UNCHANGED <<db_vars, demo_cache, today, ops, conc_vars, student_vars>>

logout_keeping_items ==
    /\ session' = [k \in DOMAIN session \ {"user_id"} |-> session[k]]
    /\ call' = [op |-> "logout", status |-> 302]
    /\ UNCHANGED <<db_vars, demo_cache, today, ops, conc_vars, student_vars>>

\* session.clear()
logout ==
    /\ session' = EmptyDict
    /\ call' = [op |-> "logout", status |-> 302]
    /\ UNCHANGED <<db_vars, demo_cache, today, ops, conc_vars, student_vars>>

----------------------------------------------------------------------------
(* app.py: the mock recognizer and the /recognize routes. *)

\* keyword_map, in its order: <<keyword, ingredient>>.
keyword_map ==
    << <<"chicken", "torimuneniku">>, <<"egg", "tamago">>,
       <<"broccoli", "burokkori">>,   <<"milk", "gyunyu">>,
       <<"rice", "gohan">>,           <<"tofu", "doufu">>,
       <<"tomato", "tomato">>,        <<"onion", "tamanegi">> >>
pool == {"torimuneniku", "tamago", "burokkori", "gyunyu", "gohan", "doufu",
         "tomato", "tamanegi"}

mock_unit(item) ==
    CASE item \in {"tamago", "tomato"} -> "ko"
      [] item = "torimuneniku" -> "mai"
      [] item = "burokkori" -> "kabu"
      [] item = "gyunyu" -> "hon"
      [] item = "gohan" -> "hai"
      [] item = "doufu" -> "cho"
      [] OTHER -> "ko"

\* A file name is the set of keywords it contains.  sample is the outcome
\* of random.sample(pool, random.randint(3, 6)) and draws[i] the outcome of
\* the i-th random.randint(1, 3).
mock_recognize(filename, sample, draws) ==
    LET hits == SelectSeq(keyword_map, LAMBDA kv : kv[1] \in filename)
        matches == IF hits = <<>> THEN sample
                   ELSE [i \in 1 .. Len(hits) |-> hits[i][2]]
    IN  [i \in 1 .. Len(matches) |->
            [name |-> matches[i], quantity |-> draws[i], unit |-> mock_unit(matches[i])]]

\* The uploads tried: no file, and files named after these keywords.
Filenames == {{"egg"}, {"tofu", "egg"}, {}}
Samples == {<<"tomato", "doufu", "tamago">>}
Draws == {<<1, 1, 1>>, <<3, 1, 2>>}

\* The text of a quantity field after strip: ASCII digits, a digit character
\* int() does not accept (such as a superscript two), letters, or nothing.
Digits(n) == [kind |-> "digits", value |-> n]
Superscript == [kind |-> "superscript", value |-> 2]
Letters == [kind |-> "letters", value |-> 0]
Blank == [kind |-> "blank", value |-> 0]
isdigit(text) == text.kind \in {"digits", "superscript"}
int_raises(text) == text.kind # "digits"
int(text) == text.value

\* The forms submitted: name, quantity, unit, expiry_date ("" as <<>>).
Form(name, quantity, unit, expiry_date) ==
    [name |-> name, quantity |-> quantity, unit |-> unit, expiry_date |-> expiry_date]
Forms ==
    { Form("tomato", Digits(1), "ge", NULL),
      Form("jidan", Digits(MaxQty), "he", Some(today)),
      Form("", Digits(1), "ge", NULL),
      Form("tomato", Superscript, "ge", NULL),
      Form("tomato", Letters, "", NULL) }
FormValid(f) == f.name # "" /\ isdigit(f.quantity) /\ f.unit # ""

\* indexes of a /recognize/update and /recognize/delete URL
ItemIndexes == {0, 1, 3}

no_tables == <<users, users_seq, pantry_items, pantry_seq, recipes, recipes_seq,
               ingredients, ingredients_seq, recipe_ingredients, cooking_log,
               recognition_logs>>
app_frame == <<demo_cache, today, conc_vars, student_vars>>

recognize_post(max, filenames, all_draws) ==
    /\ Budget(max)
    /\ \/ RefusedByLoginRequired("recognize_post")
       \/ /\ LoggedIn
          /\ \/ /\ call' = [op |-> "recognize_post", status |-> 302, file |-> FALSE]
                /\ UNCHANGED session
             \/ \E filename \in filenames, sample \in Samples, draws \in all_draws :
                   /\ session' = SessionSet("recognize_items",
                                            mock_recognize(filename, sample, draws))
                   /\ call' = [op |-> "recognize_post", status |-> 302, file |-> TRUE]
          /\ UNCHANGED <<db_vars, demo_cache>>
    /\ UNCHANGED <<today, conc_vars, student_vars>>

recognize_update(max, indexes, forms) ==
    /\ Budget(max)
    /\ \/ RefusedByLoginRequired("recognize_update")
       \/ /\ LoggedIn
          /\ \E item_index \in indexes, f \in forms :
                LET items == SessionItems
                    in_range == 0 <= item_index /\ item_index < Len(items)
                    c == [op |-> "recognize_update", item_index |-> item_index,
                          form |-> f]
                IN  IF in_range /\ FormValid(f) /\ int_raises(f.quantity)
                    THEN /\ call' = c @@ [status |-> 500, raised |-> "ValueError"]
                         /\ UNCHANGED session
                    ELSE IF in_range /\ FormValid(f)
                    THEN /\ session' = SessionSet("recognize_items",
                                [items EXCEPT ![item_index + 1] =
                                    [name |-> f.name, quantity |-> int(f.quantity),
                                     unit |-> f.unit]])
                         /\ call' = c @@ [status |-> 302, raised |-> ""]
                    ELSE /\ call' = c @@ [status |-> 302, raised |-> ""]
                         /\ UNCHANGED session
          /\ UNCHANGED <<db_vars, demo_cache>>
    /\ UNCHANGED <<today, conc_vars, student_vars>>

\* items.pop(item_index)
pop_last(items, item_index) ==
    [i \in 1 .. Len(items) - 1 |-> items[i]]
pop(items, item_index) ==
    [i \in 1 .. Len(items) - 1 |-> IF i <= item_index THEN items[i] ELSE items[i + 1]]

recognize_delete(max, indexes) ==
    /\ Budget(max)
    /\ \/ RefusedByLoginRequired("recognize_delete")
       \/ /\ LoggedIn
          /\ \E item_index \in indexes :
                LET items == SessionItems
                IN  /\ session' = IF 0 <= item_index /\ item_index < Len(items)
                                  THEN SessionSet("recognize_items", pop(items, item_index))
                                  ELSE session
                    /\ call' = [op |-> "recognize_delete", status |-> 302,
                                item_index |-> item_index]
          /\ UNCHANGED <<db_vars, demo_cache>>
    /\ UNCHANGED <<today, conc_vars, student_vars>>

\* for item in items: upsert_pantry_item(...), on <<rows, seq>>.
RECURSIVE upsert_all(_, _, _, _, _)
upsert_all(rows, seq, user_id, items, expiry_date) ==
    IF items = <<>> THEN <<rows, seq>>
    ELSE upsert_all(upsert_pantry_item(rows, seq, user_id, Head(items).name,
                                       Head(items).quantity, Head(items).unit,
                                       expiry_date),
                    seq + 1, user_id, Tail(items), expiry_date)

\* if items: add_recognition_log(user_id, now, len(items))
log_recognition_always(log, user_id, now, items) ==
    add_recognition_log(log, user_id, now, Len(items))
log_recognition(log, user_id, now, items) ==
    IF items # <<>> THEN add_recognition_log(log, user_id, now, Len(items)) ELSE log

recognize_save(max) ==
    /\ Budget(max)
    /\ \/ RefusedByLoginRequired("recognize_save")
       \/ /\ LoggedIn
          /\ LET items == SessionItems
                 user_id == session["user_id"]
                 done == upsert_all(pantry_items, pantry_seq, user_id, items, Some(today))
             IN  /\ pantry_items' = done[1]
                 /\ pantry_seq' = done[2]
                 /\ recognition_logs' = log_recognition(recognition_logs, user_id,
                                                        today, items)
                 /\ session' = SessionSet("recognize_items", <<>>)
                 /\ call' = [op |-> "recognize_save", status |-> 302,
                             items |-> items, user_id |-> user_id]
          /\ UNCHANGED <<users, users_seq, recipes, recipes_seq, ingredients,
                         ingredients_seq, recipe_ingredients, cooking_log, demo_cache>>
    /\ UNCHANGED <<today, conc_vars, student_vars>>

----------------------------------------------------------------------------
(* app.py: the pantry routes, /api/vision/save and /recipes/<id>/cook. *)

\* item ids of a /pantry/update and /pantry/delete URL: a seeded row of the
\* demo user, the rows added since, and an id no row has
UrlItemIds == {1, pantry_seq + 1} \cup
              {r.id : r \in {x \in pantry_items : x.id > Len(pantry_seed)}}

pantry_add(max, forms) ==
    /\ Budget(max)
    /\ \/ RefusedByLoginRequired("pantry_add")
       \/ /\ LoggedIn
          /\ \E f \in forms :
                LET c == [op |-> "pantry_add", form |-> f]
                IN  IF FormValid(f) /\ int_raises(f.quantity)
                    THEN /\ call' = c @@ [status |-> 500, raised |-> "ValueError"]
                         /\ UNCHANGED <<pantry_items, pantry_seq>>
                    ELSE IF FormValid(f)
                    THEN /\ pantry_items' = upsert_pantry_item(pantry_items, pantry_seq,
                                                session["user_id"], f.name,
                                                int(f.quantity), f.unit, f.expiry_date)
                         /\ pantry_seq' = pantry_seq + 1
                         /\ call' = c @@ [status |-> 302, raised |-> ""]
                    ELSE /\ call' = c @@ [status |-> 302, raised |-> ""]
                         /\ UNCHANGED <<pantry_items, pantry_seq>>
          /\ UNCHANGED <<other_tables, web_vars>>
    /\ UNCHANGED <<today, conc_vars, student_vars>>

pantry_update(max, forms) ==
    /\ Budget(max)
    /\ \/ RefusedByLoginRequired("pantry_update")
       \/ /\ LoggedIn
          /\ \E item_id \in UrlItemIds, f \in forms :
                LET c == [op |-> "pantry_update", item_id |-> item_id, form |-> f]
                    rows == update_pantry_item(pantry_items, session["user_id"],
                                               item_id, f.name, int(f.quantity),
                                               f.unit, f.expiry_date)
                IN  IF FormValid(f) /\ int_raises(f.quantity)
                    THEN /\ call' = c @@ [status |-> 500, raised |-> "ValueError"]
                         /\ UNCHANGED pantry_items
                    ELSE IF FormValid(f) /\ ~pantry_unique(rows)
                    THEN /\ call' = c @@ [status |-> 500, raised |-> "IntegrityError"]
                         /\ UNCHANGED pantry_items
                    ELSE IF FormValid(f)
                    THEN /\ pantry_items' = rows
                         /\ call' = c @@ [status |-> 302, raised |-> ""]
                    ELSE /\ call' = c @@ [status |-> 302, raised |-> ""]
                         /\ UNCHANGED pantry_items
          /\ UNCHANGED <<pantry_seq, other_tables, web_vars>>
    /\ UNCHANGED <<today, conc_vars, student_vars>>

pantry_delete(max) ==
    /\ Budget(max)
    /\ \/ RefusedByLoginRequired("pantry_delete")
       \/ /\ LoggedIn
          /\ \E item_id \in UrlItemIds :
                /\ pantry_items' = delete_pantry_item(pantry_items, session["user_id"],
                                                      item_id)
                /\ call' = [op |-> "pantry_delete", status |-> 302, item_id |-> item_id]
          /\ UNCHANGED <<pantry_seq, other_tables, web_vars>>
    /\ UNCHANGED <<today, conc_vars, student_vars>>

\* A JSON number or numeric string is its value in tenths; int(float(v))
\* truncates toward zero, and a value float() rejects counts as 1.
Number(tenths) == [kind |-> "number", tenths |-> tenths]
Text == [kind |-> "text", tenths |-> 0]
int_float(v) ==
    IF v.kind = "number"
    THEN IF v.tenths >= 0 THEN v.tenths \div 10 ELSE -((-v.tenths) \div 10)
    ELSE 1

\* An element of the "ingredients" list: a JSON object as a function over
\* the keys it has, or something that is not an object.
NotAnObject == [kind |-> "other", fields |-> EmptyDict]
Object(fields) == [kind |-> "dict", fields |-> fields]
Get(fields, key, default) == IF key \in DOMAIN fields THEN fields[key] ELSE default

\* The loop of vision_save over items, on [rows, seq, saved].
RECURSIVE vision_save_items(_, _, _, _)
vision_save_items(acc, user_id, items, day) ==
    IF items = <<>> THEN acc
    ELSE LET item == Head(items)
             name == strip(Get(item.fields, "name", ""))
             quantity == int_float(Get(item.fields, "quantity", Number(10)))
             unit == IF strip(Get(item.fields, "unit", "ko")) = "" THEN "ko"
                     ELSE strip(Get(item.fields, "unit", "ko"))
             expiry_date == Get(item.fields, "expiry_date", Some(day))
         IN  IF item.kind # "dict" \/ name = ""
             THEN vision_save_items(acc, user_id, Tail(items), day)
             ELSE vision_save_items(
                      [rows |-> upsert_pantry_item(acc.rows, acc.seq, user_id, name,
                                                   quantity, unit, expiry_date),
                       seq |-> acc.seq + 1,
                       saved |-> acc.saved + 1],
                      user_id, Tail(items), day)

\* The request bodies tried: no JSON, an "ingredients" that is not a list,
\* and lists of ingredients.
Payload(kind, items) == [kind |-> kind, items |-> items]
VisionPayloads ==
    { Payload("none", <<>>),
      Payload("not_a_list", <<>>),
      Payload("list", <<>>),
      Payload("list", << Object("name" :> "tamago" @@ "quantity" :> Number(25)),
                         NotAnObject,
                         Object("name" :> " " @@ "unit" :> "he"),
                         Object("name" :> "jidan" @@ "quantity" :> Text
                                @@ "unit" :> " ") >>) }

vision_save(max, payloads) ==
    /\ Budget(max)
    /\ \/ RefusedByLoginRequired("vision_save")
       \/ /\ LoggedIn
          /\ \E payload \in payloads :
                LET user_id == session["user_id"]
                    done == vision_save_items(
                                [rows |-> pantry_items, seq |-> pantry_seq, saved |-> 0],
                                user_id, payload.items, today)
                IN  IF payload.kind = "not_a_list"
                    THEN /\ call' = [op |-> "vision_save", status |-> 400, saved |-> 0,
                                     user_id |-> user_id]
                         /\ UNCHANGED <<pantry_items, pantry_seq>>
                    ELSE /\ pantry_items' = done.rows
                         /\ pantry_seq' = done.seq
                         /\ call' = [op |-> "vision_save", status |-> 200,
                                     saved |-> done.saved, user_id |-> user_id]
          /\ UNCHANGED <<other_tables, web_vars>>
    /\ UNCHANGED <<today, conc_vars, student_vars>>

\* recipe ids of a /recipes/<id>/cook URL (the id is not looked up)
UrlRecipeIds == {1, 2, 9}

recipe_cook(max, recipe_ids) ==
    /\ Budget(max)
    /\ \/ RefusedByLoginRequired("recipe_cook")
       \/ /\ LoggedIn
          /\ \E recipe_id \in recipe_ids :
                /\ cooking_log' = add_cooking_log(cooking_log, session["user_id"],
                                                  recipe_id, today)
                /\ call' = [op |-> "recipe_cook", status |-> 302,
                            recipe_id |-> recipe_id, user_id |-> session["user_id"]]
          /\ UNCHANGED <<users, users_seq, pantry_items, pantry_seq, recipes,
                         recipes_seq, ingredients, ingredients_seq,
                         recipe_ingredients, recognition_logs, web_vars>>
    /\ UNCHANGED <<today, conc_vars, student_vars>>

\* The GET pages, which only read: home is open, the others are behind
\* login_required.
Pages == {"home", "dashboard", "recognize", "pantry", "vision", "recipes",
          "search", "recipe_detail", "nutrition", "notifications"}
view(pages) ==
    \E page \in pages :
        /\ call' = IF page = "home" \/ LoggedIn
                   THEN [op |-> "view", status |-> 200, open |-> page = "home"]
                   ELSE [op |-> "view", status |-> 302, open |-> FALSE]
        /\ UNCHANGED <<db_vars, web_vars, today, ops, conc_vars, student_vars>>

----------------------------------------------------------------------------
(* services/openai_vision.py and the /api/vision/ingredients route. *)

\* The exception classes: OpenAIVisionError and its three subclasses;
\* anything else is only an Exception.
VisionErrors == {"OpenAIVisionError", "MissingAPIKeyError", "NonJsonResponseError",
                 "VisionTimeoutError"}
IsInstance(exc, class) ==
    \/ exc = class
    \/ class = "Exception"
    \/ class = "OpenAIVisionError" /\ exc \in VisionErrors

Null == [kind |-> "null", tenths |-> 0]
\* _normalize_number: the float (in tenths), or <<>> for None.
normalize_number(fields, key) ==
    IF key \in DOMAIN fields /\ fields[key].kind = "number"
    THEN Some(fields[key].tenths)
    ELSE NULL

\* The loop over payload["ingredients"]: the entries returned.
RECURSIVE vision_results(_)
vision_results(items) ==
    IF items = <<>> THEN <<>>
    ELSE LET item == Head(items)
             name == strip(Get(item.fields, "name", ""))
             quantity == normalize_number(item.fields, "quantity")
             confidence == normalize_number(item.fields, "confidence")
             entry == ("name" :> Some(name))
                      @@ (IF quantity # NULL THEN "quantity" :> quantity ELSE EmptyDict)
                      @@ (IF confidence # NULL THEN "confidence" :> confidence
                          ELSE EmptyDict)
         IN  IF item.kind # "dict" \/ name = ""
             THEN vision_results(Tail(items))
             ELSE <<entry>> \o vision_results(Tail(items))

\* What the world does in one call: whether OPENAI_API_KEY is set, what
\* building the client and the request raise ("" for nothing), and the
\* output text: its kind and, for an object with an "ingredients" array,
\* the array.
Env(api_key, client, api, output, items) ==
    [api_key |-> api_key, client |-> client, api |-> api, output |-> output,
     items |-> items]

\* recognize_ingredients_from_bytes: [raised, ingredients].
Raise(exc) == [raised |-> exc, ingredients |-> <<>>]
recognize_ingredients_from_bytes(env) ==
    IF ~env.api_key THEN Raise("MissingAPIKeyError")
    ELSE IF env.client # "" THEN Raise(env.client)
    ELSE IF env.api \in {"APITimeoutError", "TimeoutError"} THEN Raise("VisionTimeoutError")
    ELSE IF env.api # "" THEN Raise("OpenAIVisionError")
    ELSE IF env.output \in {"not_json", "not_an_object", "no_ingredients_array"}
    THEN Raise("NonJsonResponseError")
    ELSE [raised |-> "", ingredients |-> vision_results(env.items)]

\* _read_demo_cache of the file _demo_cache_path names (one file per image
\* content): <<>> for None, <<ingredients>> otherwise.
read_any_cache(cache, image_bytes) ==
    IF DOMAIN cache = {} THEN NULL
    ELSE Some(cache[CHOOSE k \in DOMAIN cache : TRUE].ingredients)
read_demo_cache(cache, image_bytes) ==
    IF image_bytes \in DOMAIN cache THEN Some(cache[image_bytes].ingredients) ELSE NULL

write_one_cache_file(cache, image_bytes, found, day, os_error) ==
    IF os_error THEN cache
    ELSE ("img1" :> [ingredients |-> found, cached_at |-> day]) @@ cache
\* _write_demo_cache; an OSError is swallowed and leaves the cache as it was.
write_demo_cache(cache, image_bytes, found, day, os_error) ==
    IF os_error THEN cache
    ELSE (image_bytes :> [ingredients |-> found, cached_at |-> day]) @@ cache

\* The except clauses of vision_ingredients in their order: <<class, error,
\* status>>; the first clause the exception is an instance of handles it.
except_clauses_general_first ==
    << <<"OpenAIVisionError", "vision_error", 502>>,
       <<"MissingAPIKeyError", "missing_api_key", 500>>,
       <<"VisionTimeoutError", "timeout", 504>>,
       <<"NonJsonResponseError", "non_json_response", 502>>,
       <<"Exception", "unknown_error", 500>> >>
except_clauses ==
    << <<"MissingAPIKeyError", "missing_api_key", 500>>,
       <<"VisionTimeoutError", "timeout", 504>>,
       <<"NonJsonResponseError", "non_json_response", 502>>,
       <<"OpenAIVisionError", "vision_error", 502>>,
       <<"Exception", "unknown_error", 500>> >>
handler_of(exc) ==
    except_clauses[CHOOSE i \in DOMAIN except_clauses :
                       /\ IsInstance(exc, except_clauses[i][1])
                       /\ \A j \in 1 .. i - 1 : ~IsInstance(exc, except_clauses[j][1])]

Response(status, error, found, cache_status, cache_fallback) ==
    [status |-> status, error |-> error, ingredients |-> found,
     cache_status |-> cache_status, cache_fallback |-> cache_fallback]

\* Whether an except clause answers from the cache.
no_fallback(cached) == FALSE
falls_back(cached) == cached # NULL

\* The view function: [response, cache, called, raised].
vision_ingredients_view(file, prefer_cache, env, os_error, cache, day) ==
    LET cached == read_demo_cache(cache, file.bytes)
        r == recognize_ingredients_from_bytes(env)
        Result(resp, c, called, raised) ==
            [response |-> resp, cache |-> c, called |-> called, raised |-> raised]
    IN  IF ~file.present
        THEN Result(Response(400, "missing_image", <<>>, "", ""), cache, FALSE, "")
        ELSE IF file.bytes = ""
        THEN Result(Response(400, "empty_image", <<>>, "", ""), cache, FALSE, "")
        ELSE IF prefer_cache /\ cached # NULL
        THEN Result(Response(200, "", cached[1], "Cached", ""), cache, FALSE, "")
        ELSE IF r.raised # ""
        THEN IF falls_back(cached)
             THEN Result(Response(200, "", cached[1], "Cached", "1"), cache, TRUE, r.raised)
             ELSE Result(Response(handler_of(r.raised)[3], handler_of(r.raised)[2],
                                  <<>>, "", ""),
                         cache, TRUE, r.raised)
        ELSE Result(Response(200, "", r.ingredients, "Live", ""),
                    IF r.ingredients # <<>>
                    THEN write_demo_cache(cache, file.bytes, r.ingredients, day, os_error)
                    ELSE cache,
                    TRUE, "")

File(present, bytes) == [present |-> present, bytes |-> bytes]
Files == {File(FALSE, ""), File(TRUE, ""), File(TRUE, "img1"), File(TRUE, "img2")}

ItemsA == << Object("name" :> "tamago" @@ "quantity" :> Number(20)
                    @@ "confidence" :> Number(9)),
             NotAnObject,
             Object("name" :> " " @@ "quantity" :> Number(10)) >>
ItemsB == << Object("name" :> "doufu" @@ "quantity" :> Null @@ "confidence" :> Text) >>
ItemsNone == << Object("name" :> " "), NotAnObject >>
Envs ==
    { Env(FALSE, "", "", "ingredients", ItemsA),
      Env(TRUE, "RuntimeError", "", "ingredients", ItemsA),
      Env(TRUE, "", "APITimeoutError", "ingredients", ItemsA),
      Env(TRUE, "", "TimeoutError", "ingredients", ItemsA),
      Env(TRUE, "", "APIConnectionError", "ingredients", ItemsA),
      Env(TRUE, "", "", "not_json", <<>>),
      Env(TRUE, "", "", "not_an_object", <<>>),
      Env(TRUE, "", "", "no_ingredients_array", <<>>),
      Env(TRUE, "", "", "ingredients", ItemsA),
      Env(TRUE, "", "", "ingredients", ItemsB),
      Env(TRUE, "", "", "ingredients", ItemsNone),
      Env(TRUE, "", "", "ingredients", <<>>) }

\* POST /api/vision/ingredients with a file of files, in a world of envs.
vision_ingredients_request(files, envs) ==
    \/ RefusedByLoginRequired("vision_ingredients") /\ UNCHANGED today
    \/ /\ LoggedIn
       /\ \E file \in files, prefer_cache \in BOOLEAN, env \in envs, os_error \in BOOLEAN :
            LET v == vision_ingredients_view(file, prefer_cache, env, os_error,
                                             demo_cache, today)
            IN  /\ demo_cache' = v.cache
                /\ call' = [op |-> "vision_ingredients", file |-> file,
                            prefer_cache |-> prefer_cache,
                            cached |-> read_demo_cache(demo_cache, file.bytes),
                            called |-> v.called, raised |-> v.raised,
                            status |-> v.response.status]
                           @@ v.response
       /\ UNCHANGED <<db_vars, session, today>>

vision_ingredients ==
    /\ vision_ingredients_request(Files, Envs)
    /\ UNCHANGED <<ops, conc_vars, student_vars>>

\* A day passes for the vision routes.
VisionTick ==
    /\ Tick
    /\ UNCHANGED <<db_vars, web_vars, ops, conc_vars, student_vars>>

NextVision ==
    \/ login(Credentials)
    \/ logout
    \/ vision_ingredients
    \/ VisionTick

SpecVision == InitWith(DbCatalogs) /\ [][NextVision]_vars

----------------------------------------------------------------------------
(* The application as a whole: every route, and restarts. *)

\* the recipe lists of SpecApp: a restart may find the data module changed
AppCatalogs ==
    {c \in RecipeCatalogs :
        \/ Len(c) = 1 /\ c[1].title = "curry" /\ c[1].description = "v1"
        \/ Len(c) = 2 /\ c[1].description = "v2" /\ c[2].title = "salad"
        \/ Len(c) = 2 /\ c[1].title = "curry" /\ c[2].title = "curry"
                      /\ c[1].description # c[2].description}

app_vision_ingredients ==
    /\ Budget(MaxRequests)
    /\ vision_ingredients_request(
           {File(TRUE, "img1")},
           {e \in Envs : e.api_key /\ e.client = "" /\ e.api \in {"", "TimeoutError"}
                         /\ e.items = ItemsA})
    /\ UNCHANGED <<conc_vars, student_vars>>

AppSeedData ==
    /\ Budget(MaxRequests)
    /\ SeedData(AppCatalogs)
    /\ UNCHANGED <<web_vars, today, conc_vars, student_vars>>

AppTick ==
    /\ Tick
    /\ UNCHANGED <<db_vars, web_vars, ops, conc_vars, student_vars>>

\* The inputs of SpecApp, a few of each kind.
AppLogins == {c \in Credentials : c[1] = "demo"}
AppRegistrations == {c \in Credentials : c[2] = "pw" /\ c[1] # " "}
AppForms == {f \in Forms : f.quantity = Digits(1) /\ f.unit = "ge"}
AppFilenames == {f \in Filenames : Cardinality(f) = 2}
AppDraws == {d \in Draws : d[1] = 3}
AppIndexes == {i \in ItemIndexes : i # 0}
AppPayloads == {x \in VisionPayloads : x.kind \in {"not_a_list", "list"}}
AppRecipeIds == {i \in UrlRecipeIds : i # 2}
AppPages == {p \in Pages : p \in {"home", "pantry"}}

NextApp ==
    \/ register(MaxRequests, AppRegistrations)
    \/ login(AppLogins)
    \/ logout
    \/ recognize_post(MaxRequests, AppFilenames, AppDraws)
    \/ recognize_update(MaxRequests, AppIndexes, AppForms)
    \/ recognize_delete(MaxRequests, AppIndexes)
    \/ recognize_save(MaxRequests)
    \/ pantry_add(MaxRequests, AppForms)
    \/ pantry_update(MaxRequests, AppForms)
    \/ pantry_delete(MaxRequests)
    \/ app_vision_ingredients
    \/ vision_save(MaxRequests, AppPayloads)
    \/ recipe_cook(MaxRequests, AppRecipeIds)
    \/ view(AppPages)
    \/ AppSeedData
    \/ AppTick

SpecApp == InitWith(AppCatalogs) /\ [][NextApp]_vars

----------------------------------------------------------------------------
(* db.py: upsert_pantry_item called by two workers at once, each on a      *)
(* connection of its own to the one database file. The INSERT takes        *)
(* SQLite's write lock before it reads the table (a connection that finds  *)
(* the lock taken waits in the busy handler), works on the committed       *)
(* table, and conn.commit() publishes its result and gives the lock back.  *)

\* Whether a connection may take the write lock.
write_lock_ignored(lock) == TRUE
write_lock_free(lock) == lock = {}

ConcCall(w, step) == [op |-> "upsert_pantry_item", worker |-> w, step |-> step]
not_conc_vars ==
    <<users, users_seq, recipes, recipes_seq, ingredients, ingredients_seq,
      recipe_ingredients, cooking_log, recognition_logs, web_vars, today, ops,
      student_vars>>

\* with get_connection() as conn
Connect(w) ==
    /\ conn[w].pc = "idle"
    /\ \E user_id \in UserIds, name \in Names, quantity \in Quantities :
          conn' = [conn EXCEPT ![w] = [pc |-> "connected", user_id |-> user_id,
                                       name |-> name, quantity |-> quantity]]
    /\ call' = ConcCall(w, "connect")
    /\ UNCHANGED <<pantry_items, pantry_seq, write_lock, not_conc_vars>>

\* conn.execute(INSERT ... ON CONFLICT DO UPDATE): the statement, inside
\* the transaction the connection opens for it
Execute(w) ==
    /\ conn[w].pc = "connected"
    /\ write_lock_free(write_lock)
    /\ write_lock' = write_lock \cup {w}
    /\ conn' = [conn EXCEPT ![w] =
                   [pc |-> "executed", user_id |-> @.user_id, name |-> @.name,
                    quantity |-> @.quantity,
                    rows |-> upsert_pantry_item(pantry_items, pantry_seq, @.user_id,
                                                @.name, @.quantity, "ge", NULL),
                    seq |-> pantry_seq + 1]]
    /\ call' = ConcCall(w, "execute")
    /\ UNCHANGED <<pantry_items, pantry_seq, not_conc_vars>>

\* conn.commit()
Commit(w) ==
    /\ conn[w].pc = "executed"
    /\ pantry_items' = conn[w].rows
    /\ pantry_seq' = conn[w].seq
    /\ write_lock' = write_lock \ {w}
    /\ conn' = [conn EXCEPT ![w] = [pc |-> "committed", user_id |-> @.user_id,
                                    name |-> @.name, quantity |-> @.quantity]]
    /\ call' = ConcCall(w, "commit")
    /\ UNCHANGED not_conc_vars

\* the end of the with block: the call returns
Return(w) ==
    /\ conn[w].pc = "committed"
    /\ conn' = [conn EXCEPT ![w] = [pc |-> "returned", user_id |-> @.user_id,
                                    name |-> @.name, quantity |-> @.quantity]]
    /\ call' = ConcCall(w, "return")
    /\ UNCHANGED <<pantry_items, pantry_seq, write_lock, not_conc_vars>>

NextConc ==
    \E w \in Workers :
        \/ Connect(w)
        \/ Execute(w)
        \/ Commit(w)
        \/ Return(w)

SpecConc == InitWith(DbCatalogs) /\ [][NextConc]_vars

----------------------------------------------------------------------------
(* Claims about the pantry table (SpecDb). *)

\* C1: after any sequence of upsert_pantry_item, update_pantry_item,
\* delete_pantry_item and seed_data calls the pantry_items table holds at
\* most one row for each (user_id, name) pair; an update that would rename
\* an item to a name the same user already has leaves no second row of
\* that name.
C1_OneRowPerUserAndName ==
    \A r1 \in pantry_items : \A r2 \in pantry_items :
        (r1.user_id = r2.user_id /\ r1.name = r2.name) => r1 = r2

\* An update_pantry_item has just been refused because the new name was
\* taken by another row of the same user.
C1_Witness ==
    /\ call.op = "update_pantry_item"
    /\ call.raised = "IntegrityError"
    /\ \E r \in pantry_items :
           r.user_id = call.user_id /\ r.name = call.name /\ r.id # call.item_id

\* C2: upsert_pantry_item(user, name, q, unit, expiry) creates one row of
\* quantity q when (user, name) has no row; when it has one, that row keeps
\* its id, its quantity becomes the old quantity plus q and its unit and
\* expiry_date become the new values; every other row is unchanged.
C2_UpsertEffect ==
    [][call'.op = "upsert_pantry_item" =>
        LET c == call'
            hit == {r \in pantry_items : r.user_id = c.user_id /\ r.name = c.name}
        IN  IF hit = {}
            THEN \E new \in pantry_items' :
                    /\ new \notin pantry_items
                    /\ new.id \notin {r.id : r \in pantry_items}
                    /\ new.user_id = c.user_id /\ new.name = c.name
                    /\ new.quantity = c.quantity /\ new.unit = c.unit
                    /\ new.expiry_date = c.expiry_date
                    /\ pantry_items' = pantry_items \cup {new}
            ELSE \E old \in hit : \E new \in pantry_items' :
                    /\ new.id = old.id
                    /\ new.user_id = old.user_id /\ new.name = old.name
                    /\ new.quantity = old.quantity + c.quantity
                    /\ new.unit = c.unit
                    /\ new.expiry_date = c.expiry_date
                    /\ pantry_items' \ {new} = pantry_items \ {old}
    ]_vars

\* An upsert has just added to the quantity of a row that existed, among
\* rows of other users and names.
C2_Witness ==
    /\ call.op = "upsert_pantry_item"
    /\ \E r \in pantry_items :
           /\ r.user_id = call.user_id /\ r.name = call.name
           /\ r.quantity > call.quantity
           /\ r.unit = call.unit
    /\ \E r \in pantry_items : r.user_id # call.user_id

----------------------------------------------------------------------------
(* Claims about the student manager (SpecStudent). *)

\* C3: add_student with a student_id already present raises ValueError and
\* leaves the students map and the JSON file unchanged, so that after any
\* sequence of add/update/delete operations each student id identifies
\* exactly one student (in the map and in the file).
C3_AddExistingRefused ==
    [][/\ (call'.op = "add_student" /\ call'.student_id \in DOMAIN students) =>
            /\ call'.raised = "ValueError"
            /\ students' = students
            /\ data_file' = data_file
       /\ \A id \in DOMAIN students' : students'[id].student_id = id
       /\ (call'.op \in {"add_student", "update_student", "delete_student"}
           /\ call'.raised = "") =>
            DOMAIN data_file'[1] = DOMAIN students'
    ]_vars

\* add_student has just been refused for an id whose student differs from
\* the one offered.
C3_Witness ==
    /\ call.op = "add_student"
    /\ call.raised = "ValueError"
    /\ call.student_id \in DOMAIN students
    /\ students[call.student_id].name # call.name
    /\ data_file # NULL

----------------------------------------------------------------------------
(* Claims about the two logs and the recipes (SpecApp). *)

\* C4: the cooking log is append-only: a cooking_log row that exists is
\* not modified or deleted by any route, db helper or re-run of seed_data;
\* recipe_cook appends exactly one row, for the session user, the recipe id
\* of the URL and today's date.
C4_CookingLogAppendOnly ==
    [][/\ Len(cooking_log') >= Len(cooking_log)
       /\ \A i \in 1 .. Len(cooking_log) : cooking_log'[i] = cooking_log[i]
       /\ (call'.op = "recipe_cook" /\ "recipe_id" \in DOMAIN call') =>
            /\ Len(cooking_log') = Len(cooking_log) + 1
            /\ LET new == cooking_log'[Len(cooking_log')]
               IN  /\ new.id \notin {cooking_log[i].id : i \in 1 .. Len(cooking_log)}
                   /\ new.user_id = session["user_id"]
                   /\ new.recipe_id = call'.recipe_id
                   /\ new.cooked_at_date = today
    ]_vars

\* seed_data has run again after a recipe_cook on an earlier day: the row
\* recipe_cook appended (for a recipe id the seed never uses) is still
\* there, followed by the rows of the second seeding.
C4_Witness ==
    /\ call.op = "seed_data"
    /\ today > 0
    /\ \E i \in 1 .. Len(cooking_log) :
           /\ cooking_log[i].recipe_id = 9
           /\ cooking_log[i].cooked_at_date < today
           /\ i < Len(cooking_log)

\* C5: the recognition log is append-only: existing recognition_logs rows
\* are never modified or deleted; recognize_save appends exactly one row,
\* whose items_count is the length of the session's recognize_items list,
\* when that list is not empty, and appends no row when it is empty.
C5_RecognitionLogAppendOnly ==
    [][/\ Len(recognition_logs') >= Len(recognition_logs)
       /\ \A i \in 1 .. Len(recognition_logs) :
             recognition_logs'[i] = recognition_logs[i]
       /\ (call'.op = "recognize_save" /\ "items" \in DOMAIN call') =>
            IF SessionItems # <<>>
            THEN /\ Len(recognition_logs') = Len(recognition_logs) + 1
                 /\ recognition_logs'[Len(recognition_logs')].items_count
                        = Len(SessionItems)
            ELSE recognition_logs' = recognition_logs
    ]_vars

\* recognize_save has just saved a list of at least two items and logged
\* their number.
C5_Witness ==
    /\ call.op = "recognize_save"
    /\ "items" \in DOMAIN call
    /\ Len(call.items) >= 2
    /\ recognition_logs[Len(recognition_logs)].items_count = Len(call.items)
    /\ recognition_logs[Len(recognition_logs)].user_id = call.user_id

\* C6: when vision_save saves at least one ingredient to the pantry, a
\* recognition_logs row for the session user is appended whose items_count
\* is the number of items saved.
C6_VisionSaveLogged ==
    [][(call'.op = "vision_save" /\ "saved" \in DOMAIN call' /\ call'.saved >= 1) =>
            /\ Len(recognition_logs') = Len(recognition_logs) + 1
            /\ recognition_logs'[Len(recognition_logs')].user_id = call'.user_id
            /\ recognition_logs'[Len(recognition_logs')].items_count = call'.saved
    ]_vars

\* C7: recipes are read-only after seeding: a recipes row that exists is
\* not changed or deleted by any route, db helper or re-run of seed_data,
\* and no two rows share a title, a re-run of seed_data inserting no recipe
\* whose title exists.
C7_RecipesReadOnly ==
    [][/\ recipes \subseteq recipes'
       /\ \A r1 \in recipes' : \A r2 \in recipes' : r1.title = r2.title => r1 = r2
    ]_vars

\* seed_data has run again with a recipe list that holds a different
\* version of a recipe already stored, and a new recipe: the stored version
\* is the one in the table, next to the new recipe.
C7_Witness ==
    /\ call.op = "seed_data"
    /\ \E r \in recipes : r.title = "curry" /\ r.description = "v1"
    /\ \E r \in recipes : r.title = "salad"
    /\ Len(cooking_log) > Len(cooking_history)

----------------------------------------------------------------------------
(* Claims about concurrent upserts (SpecConc). *)

\* the quantity a (user_id, name) pair has in rows: 0 without a row
QuantityIn(rows, user_id, name) ==
    LET hit == {r \in rows : r.user_id = user_id /\ r.name = name}
    IN  IF hit = {} THEN 0 ELSE (CHOOSE r \in hit : TRUE).quantity
\* the pantry before the workers start
InitialPantry == seed_data(EmptyTables, CHOOSE c \in DbCatalogs : TRUE, 0).pantry_items
BothReturned == \A w \in Workers : conn[w].pc = "returned"
SameItem == conn["w1"].user_id = conn["w2"].user_id /\ conn["w1"].name = conn["w2"].name

\* C8: two concurrent upsert_pantry_item calls for the same (user, name)
\* with quantities a and b end, in any interleaving, with a single row of
\* that user and name whose quantity is the initial quantity plus a plus b.
C8_ConcurrentUpsertsAdd ==
    (BothReturned /\ SameItem) =>
        LET c == conn["w1"]
            hit == {r \in pantry_items : r.user_id = c.user_id /\ r.name = c.name}
        IN  /\ Cardinality(hit) = 1
            /\ \A r \in hit :
                  r.quantity = QuantityIn(InitialPantry, c.user_id, c.name)
                               + conn["w1"].quantity + conn["w2"].quantity

\* Both calls, for an item the user already had, have returned; the second
\* worker connected before the first committed.
C8_Witness ==
    /\ BothReturned
    /\ SameItem
    /\ QuantityIn(InitialPantry, conn["w1"].user_id, conn["w1"].name) > 0
    /\ QuantityIn(pantry_items, conn["w1"].user_id, conn["w1"].name)
           > QuantityIn(InitialPantry, conn["w1"].user_id, conn["w1"].name)
             + conn["w1"].quantity

----------------------------------------------------------------------------
(* Claims about /api/vision/ingredients (SpecVision). *)

\* whether the cache holds a result for these image bytes
file_cached(cache, image_bytes) == image_bytes \in DOMAIN cache

\* the call' of a request the view function handled past its image checks,
\* in which the recognizer was called and raised
RecognizerRaised(c) ==
    c.op = "vision_ingredients" /\ "raised" \in DOMAIN c /\ c.called /\ c.raised # ""

\* C9: when the recognizer raises any exception and a cached result exists
\* for the same image bytes, vision_ingredients answers 200 with the cached
\* ingredients, X-Cache-Status "Cached" and X-Cache-Fallback "1", not an
\* error.
C9_FallsBackToCache ==
    [][(RecognizerRaised(call') /\ file_cached(demo_cache, call'.file.bytes)) =>
            /\ call'.status = 200
            /\ call'.error = ""
            /\ call'.ingredients = demo_cache[call'.file.bytes].ingredients
            /\ call'.cache_status = "Cached"
            /\ call'.cache_fallback = "1"
    ]_vars

\* A request has been answered from the cache after the recognizer raised
\* an exception that is not an OpenAIVisionError.
C9_Witness ==
    /\ RecognizerRaised(call)
    /\ call.raised \notin VisionErrors
    /\ call.cache_fallback = "1"
    /\ call.ingredients # <<>>

\* C10: without a cached result vision_ingredients maps each failure to a
\* fixed status: missing or empty image 400, MissingAPIKeyError 500,
\* VisionTimeoutError 504, NonJsonResponseError 502, any other
\* OpenAIVisionError 502, any other exception 500; and none of these cases
\* writes a cache file.
C10_FailureStatus ==
    [][(/\ call'.op = "vision_ingredients"
        /\ "raised" \in DOMAIN call'
        /\ ~file_cached(demo_cache, call'.file.bytes)
        /\ (~call'.file.present \/ call'.file.bytes = "" \/ call'.raised # "")) =>
            /\ call'.status =
                  CASE ~call'.file.present \/ call'.file.bytes = "" -> 400
                    [] call'.raised = "MissingAPIKeyError" -> 500
                    [] call'.raised = "VisionTimeoutError" -> 504
                    [] call'.raised = "NonJsonResponseError" -> 502
                    [] call'.raised = "OpenAIVisionError" -> 502
                    [] OTHER -> 500
            /\ demo_cache' = demo_cache
    ]_vars

\* The recognizer raised a plain OpenAIVisionError for an image that had no
\* cache file, while another image had one: the answer is 502 vision_error.
C10_Witness ==
    /\ RecognizerRaised(call)
    /\ call.raised = "OpenAIVisionError"
    /\ call.status = 502
    /\ call.error = "vision_error"
    /\ call.file.bytes \notin DOMAIN demo_cache
    /\ DOMAIN demo_cache # {}

----------------------------------------------------------------------------
(* The routes that take a form, with every kind of form (SpecForms). *)

FormFilenames == {f \in Filenames : f # {}}
FormDraws == {d \in Draws : d[1] = 1}

NextForms ==
    \/ login(AppLogins)
    \/ logout
    \/ recognize_post(MaxRequests, FormFilenames, FormDraws)
    \/ recognize_update(MaxRequests, ItemIndexes, Forms)
    \/ pantry_add(MaxRequests, Forms)
    \/ pantry_update(MaxRequests, Forms)

SpecForms == InitWith(DbCatalogs) /\ [][NextForms]_vars

\* C11: for every form whose name is empty, whose unit is empty or whose
\* quantity does not pass the digit check, pantry_add, pantry_update and
\* recognize_update change neither the database nor the session's item
\* list and answer with a redirect; for every form that passes the check
\* the handler completes without raising.
C11_FormsRejectedSilently ==
    [][(/\ call'.op \in {"pantry_add", "pantry_update", "recognize_update"}
        /\ "form" \in DOMAIN call') =>
            IF FormValid(call'.form)
            THEN call'.raised = "" /\ call'.status = 302
            ELSE /\ call'.raised = "" /\ call'.status = 302
                 /\ UNCHANGED db_vars
                 /\ UNCHANGED session
    ]_vars

----------------------------------------------------------------------------
(* app.py: the scoring of one recipe in the recipes view, as a function of *)
(* the recipe's ingredient list, the names in the user's pantry and the    *)
(* recipe's nutrition facts (SpecScore).                                   *)

\* longest ingredient list scored
MaxIngredients == 3

Min(a, b) == IF a <= b THEN a ELSE b

\* [ing for ing in ingredients if ing.get("role") == "required"] and
\* [ing for ing in required if ing["name"] in pantry_names]
RECURSIVE filter_required(_)
filter_required(items) ==
    IF items = <<>> THEN <<>>
    ELSE IF "role" \in DOMAIN Head(items) /\ Head(items).role = "required"
         THEN <<Head(items)>> \o filter_required(Tail(items))
         ELSE filter_required(Tail(items))
RECURSIVE filter_matched(_, _)
filter_matched(items, pantry_names) ==
    IF items = <<>> THEN <<>>
    ELSE IF Head(items).name \in pantry_names
         THEN <<Head(items)>> \o filter_matched(Tail(items), pantry_names)
         ELSE filter_matched(Tail(items), pantry_names)

\* max(0, min(40, health_score)) and max(0, min(60, ...))
not_clamped(low, high, x) == x
clamp(low, high, x) == Max(low, Min(high, x))

\* health_score before it is clamped
health_points(nutrition) ==
      (IF Get(nutrition, "protein", 0) >= 30 THEN 10 ELSE 0)
    + (IF Get(nutrition, "veg_score", 0) >= 2 THEN 10 ELSE 0)
    + (IF Get(nutrition, "kcal", 0) <= 500 THEN 10 ELSE 0)
    + (IF Get(nutrition, "fat", 0) <= 15 THEN 10 ELSE 0)
    - (IF Get(nutrition, "carb", 0) >= 70 THEN 10 ELSE 0)

recipe_grade_c_from_50(total_score) ==
    IF total_score >= 85 THEN "A"
    ELSE IF total_score >= 70 THEN "B"
    ELSE IF total_score >= 50 THEN "C"
    ELSE "D"
recipe_grade(total_score) ==
    IF total_score >= 85 THEN "A"
    ELSE IF total_score >= 70 THEN "B"
    ELSE IF total_score >= 55 THEN "C"
    ELSE "D"

\* The body of the loop of recipes() for one recipe. match_rate is the
\* fraction matched / total_required; int(match_rate * 60) is the floor of
\* 60 * matched / total_required (the float product rounds to the same
\* integer for the counts used here, below 41).
score_recipe(ingredients_of_recipe, pantry_names, nutrition) ==
    LET with_role == filter_required(ingredients_of_recipe)
        required == IF with_role = <<>> THEN ingredients_of_recipe ELSE with_role
        required_names == {required[i].name : i \in DOMAIN required}
        matched_required == filter_matched(required, pantry_names)
        total_required == Max(1, Cardinality(required_names))
        matched == Len(matched_required)
        missing_required == total_required - matched
        skipped == 10 * matched < 6 * total_required /\ missing_required > 2
        health_score == clamp(0, 40, health_points(nutrition))
        match_score == clamp(0, 60, (60 * matched) \div total_required
                                    - missing_required * 8)
        total_score == match_score + health_score
    IN  [listed |-> ~skipped,
         match_count |-> matched,
         total_required |-> total_required,
         match_rate |-> (100 * matched) \div total_required,
         missing_required |-> missing_required,
         match_score |-> match_score,
         health_score |-> health_score,
         total_score |-> total_score,
         grade |-> recipe_grade(total_score)]

\* The inputs: ingredient lists of up to MaxIngredients entries (a name may
\* repeat), the names in the pantry, and nutrition facts around the
\* thresholds, some of them absent.
IngredientNames == {"jidan", "fanqie", "niunai"}
IngredientEntries == [name : IngredientNames, role : {"required", "optional"}]
IngredientLists ==
    UNION {[1 .. n -> IngredientEntries] : n \in 0 .. MaxIngredients}
PantryNameSets == {{}, {"jidan"}, {"jidan", "fanqie"}, IngredientNames}
Fact(key, values) == {EmptyDict} \cup {key :> v : v \in values}
Nutritions ==
    {p @@ v @@ k @@ f @@ c :
        p \in Fact("protein", {29, 30}), v \in Fact("veg_score", {2}),
        k \in Fact("kcal", {500, 501}), f \in Fact("fat", {15, 16}) \ {EmptyDict},
        c \in Fact("carb", {70}) }

\* what a scoring function leaves alone
not_call == <<db_vars, web_vars, today, conc_vars, student_vars>>

\* One recipe goes through the loop of recipes(), once in a behaviour.
recipes_score ==
    /\ Budget(1)
    /\ \E ings \in IngredientLists, names \in PantryNameSets, nutrition \in Nutritions :
          call' = [op |-> "recipes", nutrition |-> nutrition]
                  @@ score_recipe(ings, names, nutrition)
    /\ UNCHANGED not_call

\* _nutrition_score: the points for the day's kcal
kcal_points_without_zero_case(total_kcal) ==
    IF 1600 <= total_kcal /\ total_kcal <= 2400 THEN 50 + 20
    ELSE IF total_kcal < 1400 \/ total_kcal > 2600 THEN 50 - 5
    ELSE 50
kcal_points(total_kcal) ==
    IF total_kcal = 0 THEN 20
    ELSE IF 1600 <= total_kcal /\ total_kcal <= 2400 THEN 50 + 20
    ELSE IF total_kcal < 1400 \/ total_kcal > 2600 THEN 50 - 5
    ELSE 50

\* _nutrition_score; the reasons are named, not spelled out
nutrition_score(today_totals) ==
    LET total_kcal == Get(today_totals, "kcal", 0)
        protein == Get(today_totals, "protein", 0)
        veg_score == Get(today_totals, "veg_score", 0)
        score == clamp(0, 100,
                       kcal_points(total_kcal)
                       + (IF protein >= 60 THEN 20 ELSE IF protein >= 40 THEN 10 ELSE -5)
                       + (IF veg_score >= 2 THEN 10 ELSE 0))
        reasons == << IF total_kcal = 0 THEN "no_meal_record"
                      ELSE IF total_kcal < 1400 THEN "kcal_low"
                      ELSE IF total_kcal > 2600 THEN "kcal_high"
                      ELSE "kcal_ok",
                      IF protein < 40 THEN "protein_low" ELSE "protein_ok",
                      IF veg_score < 2 THEN "veg_low" ELSE "veg_ok" >>
    IN  [score |-> score, grade |-> recipe_grade(score), reasons |-> reasons]

\* The day's totals: values around the thresholds, some keys absent.
TodayTotals ==
    {k @@ p @@ v :
        k \in Fact("kcal", {0, 1, 1399, 1400, 1599, 1600, 2400, 2401, 2600, 2601}),
        p \in Fact("protein", {0, 39, 40, 59, 60}),
        v \in Fact("veg_score", {0, 1, 2, 3}) }

nutrition_score_call ==
    /\ Budget(1)
    /\ \E today_totals \in TodayTotals :
          call' = [op |-> "_nutrition_score", today_totals |-> today_totals]
                  @@ nutrition_score(today_totals)
    /\ UNCHANGED not_call

NextScore ==
    \/ recipes_score
    \/ nutrition_score_call

SpecScore == InitWith(DbCatalogs) /\ [][NextScore]_vars

\* the grade the two scoring functions are to give a score
GradeOf(score, grade) ==
    /\ grade = "A" <=> score >= 85
    /\ grade = "B" <=> (70 <= score /\ score <= 84)
    /\ grade = "C" <=> (55 <= score /\ score <= 69)
    /\ grade = "D" <=> score < 55

\* C12: for every recipe the recipes view lists, total_score = match_score
\* + health_score, match_score is int(match_rate * 60) minus 8 per missing
\* required ingredient clamped to 0..60, health_score is +10 each for
\* protein >= 30, veg_score >= 2, kcal <= 500, fat <= 15 and -10 for
\* carb >= 70 clamped to 0..40, total_score is in 0..100, and the grade is
\* A iff total_score >= 85, B iff 70..84, C iff 55..69, D otherwise.
C12_RecipeScore ==
    (call.op = "recipes" /\ call.listed) =>
        LET n == call.nutrition
            Of(key) == IF key \in DOMAIN n THEN n[key] ELSE 0
            health == (IF Of("protein") >= 30 THEN 10 ELSE 0)
                      + (IF Of("veg_score") >= 2 THEN 10 ELSE 0)
                      + (IF Of("kcal") <= 500 THEN 10 ELSE 0)
                      + (IF Of("fat") <= 15 THEN 10 ELSE 0)
                      - (IF Of("carb") >= 70 THEN 10 ELSE 0)
            match == (60 * call.match_count) \div call.total_required
                     - 8 * call.missing_required
        IN  /\ call.total_score = call.match_score + call.health_score
            /\ call.match_score \in 0 .. 60
            /\ call.match_score = IF match < 0 THEN 0 ELSE IF match > 60 THEN 60 ELSE match
            /\ call.health_score \in 0 .. 40
            /\ call.health_score = IF health < 0 THEN 0 ELSE IF health > 40 THEN 40
                                   ELSE health
            /\ call.total_score \in 0 .. 100
            /\ GradeOf(call.total_score, call.grade)

\* A listed recipe whose health points were negative before the clamp and
\* which misses one of its required ingredients.
C12_Witness ==
    /\ call.op = "recipes"
    /\ call.listed
    /\ call.health_score = 0
    /\ "carb" \in DOMAIN call.nutrition
    /\ "kcal" \in DOMAIN call.nutrition /\ call.nutrition["kcal"] > 500
    /\ call.nutrition["fat"] > 15
    /\ call.missing_required = 1
    /\ call.match_score > 0

\* C13: _nutrition_score returns a score in 0..100: 50 for the kcal (20
\* when kcal is 0, 70 when 1600 <= kcal <= 2400, 45 when kcal < 1400 or
\* kcal > 2600), plus 20 for protein >= 60 or 10 for protein >= 40 or -5
\* otherwise, plus 10 for veg_score >= 2; and a grade that is A iff
\* score >= 85, B iff 70..84, C iff 55..69, D otherwise.
C13_NutritionScore ==
    call.op = "_nutrition_score" =>
        LET t == call.today_totals
            Of(key) == IF key \in DOMAIN t THEN t[key] ELSE 0
            kcal == Of("kcal")
            base == CASE kcal = 0 -> 20
                      [] kcal >= 1600 /\ kcal <= 2400 -> 70
                      [] kcal # 0 /\ (kcal < 1400 \/ kcal > 2600) -> 45
                      [] OTHER -> 50
            for_protein == CASE Of("protein") >= 60 -> 20
                             [] Of("protein") >= 40 /\ Of("protein") < 60 -> 10
                             [] OTHER -> -5
            for_veg == IF Of("veg_score") >= 2 THEN 10 ELSE 0
        IN  /\ call.score \in 0 .. 100
            /\ call.score = base + for_protein + for_veg
            /\ GradeOf(call.score, call.grade)

\* A day without kcal and with enough protein and vegetables: 20 + 20 + 10.
C13_Witness ==
    /\ call.op = "_nutrition_score"
    /\ "kcal" \in DOMAIN call.today_totals
    /\ call.today_totals["kcal"] = 0
    /\ call.score = 50
    /\ call.grade = "D"

----------------------------------------------------------------------------
(* Claims about what a request's answer depends on (SpecVision). *)

\* the response fields recorded in a call
ResponseOf(c) ==
    Response(c.status, c.error, c.ingredients, c.cache_status, c.cache_fallback)
\* the cache files a request for this image can see: the file of its bytes
OwnCacheFile(cache, image_bytes) ==
    [k \in DOMAIN cache \cap {image_bytes} |-> cache[k]]
HandledVisionRequest(c) == c.op = "vision_ingredients" /\ "raised" \in DOMAIN c

----------------------------------------------------------------------------
(* db.py: the lifetime of the connection a helper opens (SpecConn). No     *)
(* helper calls conn.close(), and the with block of a sqlite3 connection   *)
(* commits or rolls back without closing it: when the helper returns the   *)
(* connection is open and no longer referenced, and it is closed when the  *)
(* interpreter reclaims the object, at the return or later.                *)

\* the interpreter reclaims the connection object of a call that returned
Reclaim(w) ==
    /\ conn[w].pc = "returned"
    /\ conn' = [conn EXCEPT ![w] = [pc |-> "closed", user_id |-> @.user_id,
                                    name |-> @.name, quantity |-> @.quantity]]
    /\ call' = ConcCall(w, "reclaim")
    /\ UNCHANGED <<pantry_items, pantry_seq, write_lock, not_conc_vars>>

NextConn ==
    \E w \in Workers :
        \/ Connect(w)
        \/ Execute(w)
        \/ Commit(w)
        \/ Return(w)
        \/ Reclaim(w)

SpecConn == InitWith(DbCatalogs) /\ [][NextConn]_vars

\* the workers whose connection is open, and those inside a helper
OpenConnections == {w \in Workers : conn[w].pc \notin {"idle", "closed"}}
InHelper == {w \in Workers : conn[w].pc \in {"connected", "executed", "committed"}}

\* C15: every database helper closes the connection it opened before it
\* returns, so no database connection is open whenever no helper is
\* running.
C15_NoOpenConnectionAtRest ==
    InHelper = {} => OpenConnections = {}

----------------------------------------------------------------------------
(* Claims about accounts: register, login, logout and restarts, with every *)
(* kind of credentials (SpecAccounts).                                     *)

NextAccounts ==
    \/ register(MaxRequests, Credentials)
    \/ login(Credentials)
    \/ logout
    \/ AppSeedData

SpecAccounts == InitWith(DbCatalogs) /\ [][NextAccounts]_vars

\* the session but for its user_id
SessionRest(s) == [k \in DOMAIN s \ {"user_id"} |-> s[k]]

\* C16: register creates a user exactly when username and password are
\* both non-empty after trimming and no user has that username: then
\* exactly one user row is added and the session's user_id becomes the new
\* user's id; otherwise no user row is added and the session is unchanged.
\* After any sequence of registrations no two users share a username.
C16_RegisterCreates ==
    [][/\ call'.op = "register" =>
            IF /\ call'.username # ""
               /\ call'.password # ""
               /\ ~\E u \in users : u.username = call'.username
            THEN \E new \in users' :
                    /\ users' \ users = {new}
                    /\ users \subseteq users'
                    /\ new.username = call'.username
                    /\ new.id \notin {u.id : u \in users}
                    /\ "user_id" \in DOMAIN session'
                    /\ session'["user_id"] = new.id
            ELSE users' = users /\ session' = session
       /\ \A u1 \in users' : \A u2 \in users' : u1.username = u2.username => u1 = u2
    ]_vars

\* A registration with blanks around the name has created the third user,
\* under the trimmed name, and logged it in.
C16_Witness ==
    /\ call.op = "register"
    /\ call.status = 302
    /\ call.username = "alice"
    /\ Cardinality(users) = 3
    /\ \E u \in users : u.username = "alice" /\ session["user_id"] = u.id
    /\ ops = 1

\* C17: login sets the session's user_id only when a user with the
\* submitted username exists and the submitted password matches that
\* user's stored hash, and then to that user's id; on a failed login the
\* session is unchanged; no database row changes either way.
C17_LoginChecksPassword ==
    [][call'.op = "login" =>
            LET match == {u \in users :
                             /\ u.username = call'.username
                             /\ u.password_hash = generate_password_hash(call'.password)}
            IN  /\ IF match # {}
                   THEN /\ "user_id" \in DOMAIN session'
                        /\ session'["user_id"] \in {u.id : u \in match}
                        /\ SessionRest(session') = SessionRest(session)
                   ELSE session' = session
                /\ UNCHANGED db_vars
    ]_vars

\* The user registered in this behaviour has logged out and logged in
\* again with its password.
C17_Witness ==
    /\ call.op = "login"
    /\ call.status = 302
    /\ call.username = "alice"
    /\ "user_id" \in DOMAIN session
    /\ session["user_id"] = 3

----------------------------------------------------------------------------
(* Claims about the owner of a pantry row: the pantry helpers of SpecDb    *)
(* and fetch_pantry_items (SpecOwner).                                     *)

\* fetch_pantry_items only reads
CallFetchPantryItems ==
    \E user_id \in UserIds :
        /\ Budget(MaxDbOps)
        /\ call' = [op |-> "fetch_pantry_items", user_id |-> user_id,
                    rows |-> fetch_pantry_items(pantry_items, user_id)]
        /\ UNCHANGED <<db_vars, today, not_db_vars>>

NextOwner ==
    \/ CallUpsertPantryItem
    \/ CallUpdatePantryItem
    \/ CallDeletePantryItem
    \/ CallFetchPantryItems
    \/ CallSeedData
    \/ DbTick

SpecOwner == InitWith(DbCatalogs) /\ [][NextOwner]_vars

\* the rows that do not belong to a user
RowsOfOthers(rows, user_id) == {r \in rows : r.user_id # user_id}

\* C18: update_pantry_item and delete_pantry_item called with the id of an
\* item of a different user change no row; fetch_pantry_items(u) returns
\* only rows whose user_id is u; and no pantry operation performed for user
\* u (seed_data works for the demo user) changes a row of another user.
C18_PantryOwnedPerUser ==
    [][/\ (/\ call'.op \in {"update_pantry_item", "delete_pantry_item"}
           /\ \E r \in pantry_items : r.id = call'.item_id /\ r.user_id # call'.user_id)
          => pantry_items' = pantry_items
       /\ call'.op = "fetch_pantry_items" =>
            /\ \A r \in call'.rows : r \in pantry_items /\ r.user_id = call'.user_id
            /\ \A r \in pantry_items : r.user_id = call'.user_id => r \in call'.rows
            /\ pantry_items' = pantry_items
       /\ call'.op \in {"upsert_pantry_item", "update_pantry_item", "delete_pantry_item"}
          => RowsOfOthers(pantry_items', call'.user_id)
                 = RowsOfOthers(pantry_items, call'.user_id)
       /\ call'.op = "seed_data" =>
            \E demo \in users :
                /\ demo.username = "demo"
                /\ RowsOfOthers(pantry_items', demo.id) = RowsOfOthers(pantry_items, demo.id)
    ]_vars

\* A delete_pantry_item called by one user with the id of another user's
\* item has returned, and the item is there.
C18_Witness ==
    /\ call.op = "delete_pantry_item"
    /\ \E r \in pantry_items : r.id = call.item_id /\ r.user_id # call.user_id

----------------------------------------------------------------------------
(* student_grade_system.py: Student.average and the show command, with the *)
(* commands of SpecStudent (SpecGrades).                                   *)

\* sum(self.scores.values())
RECURSIVE sum_values(_)
sum_values(scores) ==
    IF DOMAIN scores = {} THEN 0
    ELSE LET course == CHOOSE c \in DOMAIN scores : TRUE
         IN  scores[course] + sum_values([c \in DOMAIN scores \ {course} |-> scores[c]])

\* Student.average, a float, as the fraction num / den; 0.0 is 0 / 1.
average_without_division(scores) == [num |-> sum_values(scores), den |-> 1]
average(scores) ==
    IF DOMAIN scores = {} THEN [num |-> 0, den |-> 1]
    ELSE [num |-> sum_values(scores), den |-> Cardinality(DOMAIN scores)]

\* get_student
get_student(ss, student_id) ==
    IF student_id \notin DOMAIN ss
    THEN [raised |-> "ValueError", student |-> NULL]
    ELSE [raised |-> "", student |-> Some(ss[student_id])]

\* the show command on the manager: format_student prints the scores and
\* the average of the student get_student returns
ShowStudent ==
    \E student_id \in StudentIds :
        LET r == get_student(students, student_id)
        IN  /\ call' = IF r.raised # ""
                       THEN [op |-> "show", student_id |-> student_id,
                             raised |-> r.raised]
                       ELSE [op |-> "show", student_id |-> student_id, raised |-> "",
                             scores |-> r.student[1].scores,
                             average |-> average(r.student[1].scores)]
            /\ UNCHANGED <<student_vars, not_student_vars>>

NextGrades ==
    \/ AddStudent
    \/ UpdateStudent
    \/ DeleteStudent
    \/ ShowStudent
    \/ NewStudentManager

SpecGrades == InitWith(DbCatalogs) /\ [][NextGrades]_vars

\* C19: a student's average is derived and never stored: it is the sum of
\* the scores divided by the number of courses (0.0 without scores) for
\* the scores mapping as it is, save writes only name and scores for each
\* student id, and the average shown after an update is that of the scores
\* as updated.
C19_AverageDerived ==
    [][/\ (call'.op = "show" /\ call'.raised = "") =>
            LET scores == students[call'.student_id].scores
                courses == DOMAIN scores
                shown == call'.average
            IN  /\ call'.scores = scores
                /\ shown.den > 0
                /\ IF courses = {} THEN shown.num = 0
                   ELSE shown.num * Cardinality(courses) = sum_values(scores) * shown.den
       /\ data_file' # NULL =>
            \A id \in DOMAIN data_file'[1] :
                DOMAIN data_file'[1][id] = {"name", "scores"}
       /\ (call'.op = "update_student" /\ call'.raised = "" /\ call'.scores # NULL) =>
            \A course \in DOMAIN call'.scores[1] :
                students'[call'.student_id].scores[course] = call'.scores[1][course]
    ]_vars

\* The average of a student with two courses, one of them changed by an
\* update, is shown: (60 + 90) / 2.
C19_Witness ==
    /\ call.op = "show"
    /\ call.raised = ""
    /\ DOMAIN call.scores = {"math", "art"}
    /\ call.average.num = 150
    /\ call.average.den = 2

\* C20: after every successful add_student, update_student or
\* delete_student the file content equals the students map, so a new
\* StudentManager that loads the file holds the same ids, names and score
\* mappings: save followed by load is the identity.
C20_FileEqualsStudents ==
    [][/\ (/\ call'.op \in {"add_student", "update_student", "delete_student"}
           /\ call'.raised = "") =>
            /\ data_file' # NULL
            /\ DOMAIN data_file'[1] = DOMAIN students'
            /\ \A id \in DOMAIN students' :
                  /\ data_file'[1][id].name = students'[id].name
                  /\ data_file'[1][id].scores = students'[id].scores
            /\ load(data_file') = students'
       /\ call'.op = "StudentManager" =>
            /\ data_file' = data_file
            /\ data_file # NULL =>
                  /\ DOMAIN students' = DOMAIN data_file[1]
                  /\ \A id \in DOMAIN students' :
                        /\ students'[id].student_id = id
                        /\ students'[id].name = data_file[1][id].name
                        /\ students'[id].scores = data_file[1][id].scores
    ]_vars

\* A new manager has loaded a file that an update wrote: two students, one
\* with two courses.
C20_Witness ==
    /\ call.op = "StudentManager"
    /\ DOMAIN students = StudentIds
    /\ \E id \in DOMAIN students : DOMAIN students[id].scores = {"math", "art"}
    /\ \E id \in DOMAIN students : students[id].name = "bob"
    /\ data_file # NULL

----------------------------------------------------------------------------
(* app.py: login_required on every route it wraps (SpecApp). *)

\* the routes wrapped by login_required, by the name of their view
GuardedRoutes ==
    {"recognize_post", "recognize_update", "recognize_delete", "recognize_save",
     "pantry_add", "pantry_update", "pantry_delete", "vision_ingredients",
     "vision_save", "recipe_cook"}
GuardedRequest(c) ==
    \/ c.op \in GuardedRoutes
    \/ c.op = "view" /\ ~c.open

\* C21: a route wrapped by login_required, requested with a session that
\* has no user_id, answers with a redirect to the auth page and changes
\* neither the database, the session nor the demo cache; logout clears the
\* whole session (recognize_items included), and only a successful login
\* or register puts a user_id into the session, so every such route
\* redirects from a logout until then.
C21_LoginRequired ==
    [][/\ ("user_id" \notin DOMAIN session /\ GuardedRequest(call')) =>
            /\ call'.status = 302
            /\ call'.op # "view" => call' = [op |-> call'.op, status |-> 302,
                                             location |-> "auth"]
            /\ UNCHANGED <<db_vars, session, demo_cache>>
       /\ call'.op = "logout" =>
            /\ session' = EmptyDict
            /\ UNCHANGED <<db_vars, demo_cache>>
       /\ ("user_id" \notin DOMAIN session /\ "user_id" \in DOMAIN session') =>
            /\ call'.op \in {"login", "register"}
            /\ call'.status = 302
    ]_vars

\* A user registered, worked on a recognition list and logged out, and the
\* next request of a guarded route was redirected.
C21_Witness ==
    /\ users_seq > 2
    /\ session = EmptyDict
    /\ call.op \in GuardedRoutes
    /\ call.status = 302
    /\ call.location = "auth"

----------------------------------------------------------------------------
(* Claims about what the demo cache answers (SpecVision). *)

LiveWithIngredients(c) ==
    HandledVisionRequest(c) /\ c.cache_status = "Live" /\ c.ingredients # <<>>

----------------------------------------------------------------------------
(* app.py and db.py: the recipes view over the recipes the database holds  *)
(* and the pantry of the session's user (SpecRecipes).                     *)

\* recipes_data[:15]
ListLimit == 15

\* the rows of a SELECT in the order the database returns them, for rows
\* the ORDER BY clause does not tell apart
RECURSIVE rows_in_some_order(_)
rows_in_some_order(rows) ==
    IF rows = {} THEN <<>>
    ELSE LET row == CHOOSE r \in rows : TRUE
         IN  <<row>> \o rows_in_some_order(rows \ {row})

\* SELECT ... FROM recipes ORDER BY id ASC
RECURSIVE order_by_id(_)
order_by_id(rows) ==
    IF rows = {} THEN <<>>
    ELSE LET row == CHOOSE r \in rows : \A q \in rows : r.id <= q.id
         IN  <<row>> \o order_by_id(rows \ {row})

\* fetch_recipes_with_ingredients: the recipes rows in id order, each with
\* the list "ingredients" of its recipe_ingredients rows joined with
\* ingredients: [name, role].
fetch_recipes_with_ingredients(t) ==
    LET joined(recipe_id) ==
            rows_in_some_order(
                {<<ri, i>> \in t.recipe_ingredients \X t.ingredients :
                    ri.recipe_id = recipe_id /\ i.id = ri.ingredient_id})
        ing_map(recipe_id) ==
            [k \in DOMAIN joined(recipe_id) |->
                [name |-> joined(recipe_id)[k][2].name_canonical,
                 role |-> joined(recipe_id)[k][1].role]]
        rows == order_by_id(t.recipes)
    IN  [k \in DOMAIN rows |->
            [id |-> rows[k].id, title |-> rows[k].title,
             ingredients_json |-> rows[k].ingredients_json,
             nutrition_json |-> rows[k].nutrition_json,
             ingredients |-> ing_map(rows[k].id)]]

\* list.sort(key=total_score, reverse=True): a stable sort, recipes of
\* equal score stay in the order they had.
RECURSIVE sort_by_total_score(_)
sort_by_total_score(list) ==
    IF list = <<>> THEN <<>>
    ELSE LET rest == sort_by_total_score(Tail(list))
             x == Head(list)
             k == Cardinality({j \in DOMAIN rest : rest[j].total_score > x.total_score})
         IN  SubSeq(rest, 1, k) \o <<x>> \o SubSeq(rest, k + 1, Len(rest))

\* recipes_data.sort(...); recipes_data = recipes_data[:15]
first_then_sorted(list) ==
    sort_by_total_score(SubSeq(list, 1, Min(ListLimit, Len(list))))
sorted_then_first(list) ==
    LET sorted == sort_by_total_score(list)
    IN  SubSeq(sorted, 1, Min(ListLimit, Len(sorted)))

\* recipes(): [scored, recipes]. scored has one entry per recipe of the
\* database in id order (the values the loop computes, with listed FALSE
\* for a recipe the loop skips); recipes is the list the template gets.
recipes_data(t, user_id) ==
    LET pantry_names == {item.name : item \in fetch_pantry_items(t.pantry_items, user_id)}
        fetched == fetch_recipes_with_ingredients(t)
        scored ==
            [k \in DOMAIN fetched |->
                LET recipe == fetched[k]
                    ings == IF recipe.ingredients # <<>> THEN recipe.ingredients
                            ELSE recipe.ingredients_json
                IN  [id |-> recipe.id, title |-> recipe.title,
                     ingredients |-> ings, pantry_names |-> pantry_names]
                    @@ score_recipe(ings, pantry_names, recipe.nutrition_json)]
    IN  [scored |-> scored,
         recipes |-> sorted_then_first(SelectSeq(scored, LAMBDA e : e.listed))]

\* GET /recipes
recipes_view ==
    /\ \/ RefusedByLoginRequired("recipes_view")
       \/ /\ LoggedIn
          /\ call' = [op |-> "recipes_view", status |-> 200]
                     @@ recipes_data(Tables, session["user_id"])
          /\ UNCHANGED <<db_vars, web_vars>>
    /\ UNCHANGED <<today, ops, conc_vars, student_vars>>

\* The recipes_data module is not part of the sources: these are recipe
\* lists it may hold. Ingredient names: in the demo pantry (jidan, fanqie,
\* niunai), in no pantry (xigua, putao, li), blank, repeated; no
\* ingredients at all; entries with a role of their own.
Recipe(title, ingredient_names, nutrition) ==
    [title |-> title, description |-> "v1",
     ingredients |-> [k \in DOMAIN ingredient_names |-> [name |-> ingredient_names[k]]],
     nutrition |-> nutrition]
IngredientPatterns ==
    << <<"jidan", "fanqie", "xigua">>,
       <<"jidan", "jidan", "niunai">>,
       <<"xigua", "putao", "li", "jidan">>,
       <<"tomato", "xigua">>,
       <<" ", "  ", "   ">> >>
NutritionPatterns ==
    << ("protein" :> 30 @@ "veg_score" :> 2 @@ "kcal" :> 400 @@ "fat" :> 10),
       ("protein" :> 10 @@ "kcal" :> 900 @@ "fat" :> 30 @@ "carb" :> 80),
       ("veg_score" :> 3 @@ "fat" :> 20),
       EmptyDict >>
Titles ==
    << "r01", "r02", "r03", "r04", "r05", "r06", "r07", "r08", "r09", "r10",
       "r11", "r12", "r13", "r14", "r15", "r16", "r17", "r18", "r19", "r20" >>
LongCatalog ==
    [k \in DOMAIN Titles |->
        Recipe(Titles[k], IngredientPatterns[(k % Len(IngredientPatterns)) + 1],
               NutritionPatterns[(k % Len(NutritionPatterns)) + 1])]
ViewCatalogs ==
    { LongCatalog,
      << Recipe("blank twice", <<"", "">>, EmptyDict),
         Recipe("nothing", <<>>, "kcal" :> 300),
         [title |-> "roles", description |-> "v1",
          ingredients |-> << [name |-> " ", role |-> "required"],
                             [name |-> "  ", role |-> "optional"] >>,
          nutrition |-> EmptyDict],
         Recipe("egg twice", <<"jidan", "jidan", "jidan">>, "protein" :> 30) >> }

NextRecipes ==
    \/ login(Credentials)
    \/ logout
    \/ pantry_add(MaxRequests, Forms)
    \/ pantry_update(MaxRequests, AppForms)
    \/ pantry_delete(MaxRequests)
    \/ recipes_view

SpecRecipes == InitWith(ViewCatalogs) /\ [][NextRecipes]_vars

----------------------------------------------------------------------------
(* app.py: the /recognize routes on the session's list (SpecItems). *)

NextItems ==
    \/ login(AppLogins)
    \/ logout
    \/ recognize_post(MaxRequests + 1, Filenames, AppDraws)
    \/ recognize_update(MaxRequests + 1, ItemIndexes, Forms)
    \/ recognize_delete(MaxRequests + 1, ItemIndexes)
    \/ recognize_save(MaxRequests + 1)

SpecItems == InitWith(DbCatalogs) /\ [][NextItems]_vars

\* the sum of the quantities of the items of a list that carry a name
RECURSIVE QuantityListed(_, _)
QuantityListed(items, name) ==
    IF items = <<>> THEN 0
    ELSE (IF Head(items).name = name THEN Head(items).quantity ELSE 0)
         + QuantityListed(Tail(items), name)
\* the list of a session: session.get("recognize_items", [])
ItemsOf(s) == IF "recognize_items" \in DOMAIN s THEN s["recognize_items"] ELSE <<>>

\* C24: recognize_delete(i) with 0 <= i < len removes exactly the element
\* at index i of the session's recognize_items and keeps the order of the
\* others; recognize_update(i) and recognize_delete(i) with i out of range
\* leave the list unchanged; recognize_save upserts every item of the list
\* into the session user's pantry (for each name the pantry quantity grows
\* by the sum of that name's quantities in the list, and no row of another
\* user changes) and leaves the list empty.
C24_RecognizeItems ==
    [][LET old == ItemsOf(session)
           new == ItemsOf(session')
           handled == "user_id" \in DOMAIN session
       IN  /\ (handled /\ call'.op = "recognize_delete") =>
                LET i == call'.item_index
                IN  IF 0 <= i /\ i < Len(old)
                    THEN /\ Len(new) = Len(old) - 1
                         /\ \A j \in 0 .. Len(new) - 1 :
                               new[j + 1] = IF j < i THEN old[j + 1] ELSE old[j + 2]
                    ELSE session' = session
           /\ (/\ handled
               /\ call'.op = "recognize_update"
               /\ ~(0 <= call'.item_index /\ call'.item_index < Len(old))) =>
                session' = session
           /\ (handled /\ call'.op = "recognize_save") =>
                LET user_id == session["user_id"]
                    names == {r.name : r \in pantry_items \cup pantry_items'}
                             \cup {old[j].name : j \in DOMAIN old}
                IN  /\ \A name \in names :
                          QuantityIn(pantry_items', user_id, name)
                              = QuantityIn(pantry_items, user_id, name)
                                + QuantityListed(old, name)
                    /\ {r \in pantry_items' : r.user_id # user_id}
                          = {r \in pantry_items : r.user_id # user_id}
                    /\ new = <<>>
                    /\ "recognize_items" \in DOMAIN session'
    ]_vars

\* recognize_save has saved a list of three items in which an update had
\* given two items the same name: the pantry row of that name holds the sum
\* of both, and the list is empty.
C24_Witness ==
    /\ call.op = "recognize_save"
    /\ "items" \in DOMAIN call
    /\ Len(call.items) = 3
    /\ call.items[1].name = call.items[2].name
    /\ QuantityIn(pantry_items, call.user_id, call.items[1].name)
          = call.items[1].quantity + call.items[2].quantity
    /\ ItemsOf(session) = <<>>

----------------------------------------------------------------------------
(* Claims about a student id that is not in the store, and about what an   *)
(* update changes (SpecGrades).                                            *)

\* C25: update_student, delete_student and get_student called with a
\* student id that is not in the store raise ValueError and leave the
\* students map and the JSON file as they were (save is not called).
C25_UnknownIdRefused ==
    [][(/\ call'.op \in {"update_student", "delete_student", "show"}
        /\ call'.student_id \notin DOMAIN students) =>
            /\ call'.raised = "ValueError"
            /\ students' = students
            /\ data_file' = data_file
    ]_vars

\* delete_student has just been refused for an id that is not in a store
\* which holds another student, with a file written before.
C25_Witness ==
    /\ call.op = "delete_student"
    /\ call.raised = "ValueError"
    /\ call.student_id \notin DOMAIN students
    /\ DOMAIN students # {}
    /\ data_file # NULL
    /\ load(data_file) = students


\* C26: update_student(id, name, scores) on an existing student merges:
\* the courses named in scores take the new value, every other course of
\* the student keeps its value, the name changes only when name is not
\* None, and every other student is unchanged; with name None and scores
\* None the student is unchanged.
C26_UpdateMerges ==
    [][(call'.op = "update_student" /\ call'.raised = "") =>
            LET id == call'.student_id
                old == students[id]
                new == students'[id]
                name == call'.name
                scores == call'.scores
            IN  /\ DOMAIN students' = DOMAIN students
                /\ \A other \in DOMAIN students \ {id} :
                      students'[other] = students[other]
                /\ new.student_id = old.student_id
                /\ new.name = IF name # NULL THEN name[1] ELSE old.name
                /\ IF scores = NULL THEN new.scores = old.scores
                   ELSE /\ DOMAIN new.scores = DOMAIN old.scores \cup DOMAIN scores[1]
                        /\ \A course \in DOMAIN new.scores :
                              new.scores[course] =
                                  IF course \in DOMAIN scores[1]
                                  THEN scores[1][course]
                                  ELSE old.scores[course]
                /\ (name = NULL /\ scores = NULL) => students' = students
    ]_<<student_vars, call>>

\* An update without a name has given a new score in one course to a
\* student who keeps the score of another course, next to another student.
C26_Witness ==
    /\ call.op = "update_student"
    /\ call.raised = ""
    /\ call.name = NULL
    /\ call.scores # NULL
    /\ DOMAIN call.scores[1] = {"math"}
    /\ students[call.student_id].scores = ("math" :> 90 @@ "art" :> 90)
    /\ DOMAIN students = StudentIds

----------------------------------------------------------------------------
(* Claims about a day without kcal (SpecScore). *)

\* C27: when the day's total kcal is 0 (recorded as 0 or not recorded),
\* _nutrition_score returns a score of at most 50 and grade D, whatever the
\* protein and veg_score totals are.
C27_NoKcalGradeD ==
    (/\ call.op = "_nutrition_score"
     /\ ("kcal" \in DOMAIN call.today_totals => call.today_totals["kcal"] = 0)) =>
        /\ call.score <= 50
        /\ call.grade = "D"

\* A day whose totals hold no kcal at all, with the most protein and
\* vegetables: the score is 50 and the grade D.
C27_Witness ==
    /\ call.op = "_nutrition_score"
    /\ "kcal" \notin DOMAIN call.today_totals
    /\ "protein" \in DOMAIN call.today_totals /\ call.today_totals["protein"] >= 60
    /\ "veg_score" \in DOMAIN call.today_totals /\ call.today_totals["veg_score"] >= 2
    /\ call.score = 50
    /\ call.grade = "D"

----------------------------------------------------------------------------
(* Claims about the list the recipes view shows (SpecRecipes). *)

\* the ids of the recipes the view shows
ShownIds == {call.recipes[k].id : k \in DOMAIN call.recipes}

\* match_rate < 0.6 and missing_required > 2, for an entry of call.scored
BelowRateAndMissing(e) ==
    10 * e.match_count < 6 * e.total_required /\ e.missing_required > 2

\* C28: the recipes view lists at most 15 recipes, ordered by total_score
\* from highest to lowest; a recipe whose match rate is below 0.6 and that
\* misses more than 2 required ingredients is never listed; every other
\* recipe is listed unless the list is full, and then its total_score is
\* no higher than that of any listed recipe.
C28_FifteenBestListed ==
    (call.op = "recipes_view" /\ call.status = 200) =>
        /\ Len(call.recipes) <= 15
        /\ \A i, j \in DOMAIN call.recipes :
              i < j => call.recipes[i].total_score >= call.recipes[j].total_score
        /\ \A i, j \in DOMAIN call.recipes :
              i # j => call.recipes[i].id # call.recipes[j].id
        /\ ShownIds \subseteq {call.scored[k].id : k \in DOMAIN call.scored}
        /\ \A k \in DOMAIN call.scored :
              LET e == call.scored[k]
              IN  IF BelowRateAndMissing(e)
                  THEN e.id \notin ShownIds
                  ELSE \/ e.id \in ShownIds
                       \/ /\ Len(call.recipes) = 15
                          /\ \A i \in DOMAIN call.recipes :
                                e.total_score <= call.recipes[i].total_score

\* The view shows 15 recipes of different scores, leaves one out for its
\* match rate and missing ingredients, and one more because the list is
\* full, whose id is lower than that of a listed recipe.
C28_Witness ==
    /\ call.op = "recipes_view"
    /\ call.status = 200
    /\ Len(call.recipes) = 15
    /\ call.recipes[1].total_score > call.recipes[15].total_score
    /\ \E k \in DOMAIN call.scored : BelowRateAndMissing(call.scored[k])
    /\ \E k \in DOMAIN call.scored :
          /\ ~BelowRateAndMissing(call.scored[k])
          /\ call.scored[k].id \notin ShownIds
          /\ \E i \in DOMAIN call.recipes : call.scored[k].id < call.recipes[i].id

============================================================================
